---------------------------- MODULE Spec2Model ----------------------------
(***************************************************************************)
(* Model of the real-time stock pipeline of go-concurrency-docs            *)
(* (src/unnamed/part_000): a RingBuffer guarded by a sync.RWMutex, three   *)
(* StockExchange producers, the PriceMonitor and TechnicalAnalyzer         *)
(* consumers, the PerformanceMonitor reporter and main's lifecycle.        *)
(***************************************************************************)
EXTENDS Integers, Sequences, FiniteSets, TLC

(***************************************************************************)
(* Bounds of the model.                                                    *)
(***************************************************************************)
\* size of the ring buffer (main passes bufferSize; the model keeps it small)
Capacity == 3

\* number of records the exchanges generate while the buffer is exercised
MaxAttempts == 3

\* number of records the exchanges generate in a whole run of main
RunAttempts == 1

(***************************************************************************)
(* Program constants.                                                      *)
(***************************************************************************)
\* if data.Price > 140
AlertThreshold == 140

\* the prices an exchange may generate: one at the threshold, one above it
Prices == {AlertThreshold, AlertThreshold + 5}

\* exchanges := []*StockExchange{ ... }: the three exchanges, in order
ExchangeNames == <<"e1", "e2", "e3">>

Producers == {ExchangeNames[i] : i \in 1..Len(ExchangeNames)}

\* priceMonitor, techAnalyzer
Consumers == {"pm", "ta"}

\* perfMonitor
Reporter == "perf"

\* the order of main's go statements
LaunchOrder == ExchangeNames \o <<"pm", "ta", "perf">>

Roles == Producers \cup Consumers \cup {Reporter}

\* the goroutines main registers with wg.Add(1)
Tracked == Producers \cup Consumers

None == "none"

\* the containers sync.Pool can hand out: one per consumer can be outstanding
Containers == 1..Cardinality(Consumers)

\* StockData{}: the zero value of a slot or of a fresh container
ZeroData == [id |-> 0, symbol |-> "", price |-> 0]

\* a consumer's data pointer when it holds no container
NoData == [k |-> 0, val |-> ZeroData]

\* two of the symbols main hands to the exchanges
Symbols == {"AAPL", "AMZN"}

\* the symbol the exchanges of a pipeline run generate
ExchangeSymbols == {"AAPL"}

(***************************************************************************)
(* float64 arithmetic. A price is a float64 in [64, 4096) or zero: it is   *)
(* written as the integer number of units of 2^-46 it is worth, in three   *)
(* limbs of 20 bits, least significant first. Every float64 of that range  *)
(* is a whole number of units, and so is the exact sum of two of them.     *)
(***************************************************************************)
\* the significand of a float64, the hidden bit included
SignificandBits == 53

\* if len(prices) > 100
HistoryLimit == 100

\* len(prices) < 20, the last 20 prices, sum / 20
AverageWindow == 20

Limb == 2 ^ 20

FZero == <<0, 0, 0>>

\* the conversion of a small whole number to float64
Float64(n) == <<0, 0, n * (2 ^ 6)>>

SmallLen(n) == CHOOSE k \in 0..31 : n < 2 ^ k /\ (k = 0 \/ n >= 2 ^ (k - 1))

\* the number of bits of the integer x
BitLen(x) ==
    IF x[3] > 0 THEN 40 + SmallLen(x[3])
    ELSE IF x[2] > 0 THEN 20 + SmallLen(x[2])
    ELSE SmallLen(x[1])

\* the exact sum
AddExact(x, y) ==
    LET s1 == x[1] + y[1]
        s2 == x[2] + y[2] + (s1 \div Limb)
    IN  <<s1 % Limb, s2 % Limb, x[3] + y[3] + (s2 \div Limb)>>

\* round to nearest, ties to even: x keeps its SignificandBits leading bits;
\* inexact says that x itself is a truncation of the exact value
RoundNearest(x, inexact) ==
    LET d == BitLen(x) - SignificandBits
        ulp == 2 ^ d
        low == x[1] % ulp
        odd == (x[1] \div ulp) % 2 = 1
        down == <<x[1] - low, x[2], x[3]>>
        up == \/ 2 * low > ulp
              \/ 2 * low = ulp /\ (inexact \/ odd)
    IN  IF d <= 0 THEN x
        ELSE IF up THEN AddExact(down, <<ulp, 0, 0>>) ELSE down

\* a + b of two float64
FAdd(a, b) == RoundNearest(AddExact(a, b), FALSE)

\* the exact quotient and remainder of x by the small whole number n
DivExact(x, n) ==
    LET t2 == x[3]
        t1 == (t2 % n) * Limb + x[2]
        t0 == (t1 % n) * Limb + x[1]
    IN  [q |-> <<t0 \div n, t1 \div n, t2 \div n>>, r |-> t0 % n]

\* a / n of a float64 by a small whole number
FDiv(a, n) ==
    LET d == DivExact(a, n)
        q == d.q
    IN  IF BitLen(q) > SignificandBits THEN RoundNearest(q, d.r # 0)
        ELSE IF 2 * d.r > n \/ (2 * d.r = n /\ q[1] % 2 = 1)
          THEN AddExact(q, <<1, 0, 0>>)
          ELSE q

\* sum := 0.0; for i := first; i <= last; i++ { sum += prices[i] }
RECURSIVE Sum(_, _, _)
Sum(prices, first, last) ==
    IF last < first THEN FZero
    ELSE LET rest == Sum(prices, first, last - 1)
         IN  IF rest = FZero THEN prices[last] ELSE FAdd(rest, prices[last])

\* the prices the analyzer is given: 140.0 and 100.1
AnalysisPrices == {Float64(AlertThreshold), FDiv(Float64(1001), 10)}

\* before any call of calculateMovingAverage
NoAverage == [symbol |-> "", value |-> FZero]

VARIABLES
    buffer,      \* rb.buffer: slot -> StockData
    size,        \* rb.size
    writePos,    \* rb.writePos
    readPos,     \* rb.readPos
    rwWriter,    \* rb.mutex: the goroutine that called Lock (pending or holding)
    rwReaders,   \* rb.mutex: the goroutines holding RLock
    pool,        \* rb.pool: the containers that are free
    pc,          \* position of every goroutine
    curW,        \* local currentWrite / writePos of the running call
    curR,        \* local currentRead / readPos of the running call
    item,        \* the StockData an exchange is writing
    data,        \* the container a consumer got from Read, and its contents
    produced,    \* se.produced
    processed,   \* pm.processed, ta.processed
    alerts,      \* pm.alerts
    cancelled,   \* ctx.Done() is closed
    wgCount,     \* the WaitGroup counter
    launched,    \* how many go statements main has executed
    attempts,    \* records generated so far (their ids)
    budget,      \* deliveries the exchanges' tickers still make in this run
    priceSet,    \* the prices the exchanges generate in this run
    stats,       \* what GetStats returned to printStats
    accepted,    \* history: ids in the order Write stored them
    delivered,   \* history: ids each consumer got from Read, in order
    priceHistory, \* ta.priceHistory: symbol -> the prices kept for it
    average,     \* the last call of calculateMovingAverage and its result
    recorded,    \* history: every price updatePriceHistory got, per symbol
    calls,       \* how many times updatePriceHistory has been called
    program,     \* which of the worker-pool programs runs ("" when none does)
    mainPc,      \* position of that program's main
    closerPc,    \* position of the goroutine that closes the results channel
    taskPc,      \* position of every worker goroutine of that program
    current,     \* the job j a worker took from the jobs channel
    jobs,        \* the jobs channel: the jobs buffered in it
    jobsClosed,  \* close(jobs) has been called
    results,     \* the results channel: how many values are buffered in it
    resultsClosed, \* close(results) has been called
    sem,         \* the sem channel: how many tokens are buffered in it
    wgTasks,     \* that program's WaitGroup counter
    ctxDone,     \* the timeout has fired: ctx.Done() / timeout is ready
    collected,   \* results main has received
    steps,       \* the steps calcPowerFlow still has to make, per goroutine
    handled,     \* history: the workers that received each job, in order
    finished,    \* history: the jobs and calculations that ran to their end
    released,    \* history: how often each goroutine gave a token back
    panicked     \* a goroutine sent on the closed results channel

vars == <<buffer, size, writePos, readPos, rwWriter, rwReaders, pool, pc, curW,
          curR, item, data, produced, processed, alerts, cancelled, wgCount,
          launched, attempts, budget, priceSet, stats, accepted, delivered,
          priceHistory, average, recorded, calls, program, mainPc, closerPc,
          taskPc, current, jobs, jobsClosed, results, resultsClosed, sem,
          wgTasks, ctxDone, collected, steps, handled, finished, released,
          panicked>>

bufVars == <<buffer, writePos, readPos>>
lockVars == <<rwWriter, rwReaders>>
countVars == <<produced, processed, alerts>>
mainVars == <<cancelled, wgCount, launched>>
feedVars == <<budget, priceSet, size>>
histVars == <<accepted, delivered>>
analysisVars == <<priceHistory, average, recorded, calls>>
chanVars == <<jobs, jobsClosed, results, resultsClosed, sem>>
taskVars == <<program, mainPc, closerPc, taskPc, current, chanVars, wgTasks,
              ctxDone, collected, steps, handled, finished, released,
              panicked>>
pipelineVars == <<bufVars, lockVars, pool, pc, curW, curR, item, data,
                  countVars, mainVars, attempts, feedVars, stats, histVars,
                  analysisVars>>

NoStats == [w |-> 0, r |-> 0, used |-> 0]

(***************************************************************************)
(* TechnicalAnalyzer: the price history and the moving average             *)
(***************************************************************************)
\* NewTechnicalAnalyzer: priceHistory: make(map[string][]float64)
NewTechnicalAnalyzer ==
    /\ priceHistory = [s \in {} |-> <<>>]
    /\ average = NoAverage
    /\ recorded = [s \in Symbols |-> <<>>]
    /\ calls = 0

\* the slice the map h holds for the symbol s, nil for an unknown symbol
History(h, s) == IF s \in DOMAIN h THEN h[s] ELSE <<>>

OverLimitEarly(n) == n >= HistoryLimit

\* len(ta.priceHistory[symbol]) > 100
OverLimit(n) == n > HistoryLimit

\* ta.updatePriceHistory(symbol, price): the map after the call
updatePriceHistory(h, symbol, price) ==
    LET grown == Append(History(h, symbol), price)
        kept == IF OverLimit(Len(grown)) THEN Tail(grown) ELSE grown
    IN  [s \in DOMAIN h \cup {symbol} |-> IF s = symbol THEN kept ELSE h[s]]

\* ta.calculateMovingAverage(symbol): the value returned
calculateMovingAverage(h, symbol) ==
    IF symbol \notin DOMAIN h \/ Len(h[symbol]) < AverageWindow
    THEN FZero
    ELSE LET prices == h[symbol]
         IN  FDiv(Sum(prices, Len(prices) - AverageWindow + 1, Len(prices)),
                  AverageWindow)



(***************************************************************************)
(* Pure helpers of RingBuffer.                                             *)
(***************************************************************************)
\* a full check that forgets the wrap-around of the write cursor
IsFullNoWrap(w, r) == w + 1 = r

IsFullNever(w, r) == FALSE

\* (currentWrite+1)%int64(rb.size) == currentRead
IsFull(w, r) == (w + 1) % size = r

\* an empty check that tests the cursors the other way round
IsEmptySwapped(r, w) == (r + 1) % size = w

\* currentRead == currentWrite
IsEmpty(r, w) == r = w

\* a cursor step that wraps one slot early
AdvanceShort(pos) == (pos + 1) % (size - 1)

\* (current+1)%int64(rb.size)
Advance(pos) == (pos + 1) % size

\* a used count that always takes the wrapped branch
UsedWrapped(w, r) == size - r + w

\* the used count GetStats computes
Used(w, r) == IF w >= r THEN w - r ELSE size - r + w

\* rb.mutex.Lock() returns once no reader holds the lock
CanLock == rwReaders = {}

\* an RLock that does not wait for the writer
CanRLockAlways == TRUE

\* rb.mutex.RLock() returns unless a writer holds or waits for the lock
CanRLock == rwWriter = None

\* an alert check that also fires at the threshold itself
ShouldAlertAtThreshold(price) == price >= AlertThreshold

\* if data.Price > 140
ShouldAlert(price) == price > AlertThreshold

\* goroutines run until main returns and the process exits
Alive == pc["main"] # "exited"

\* none of the worker-pool programs runs
NoProgram ==
    /\ program = ""
    /\ mainPc = "idle"
    /\ closerPc = "idle"
    /\ taskPc = <<>>
    /\ current = <<>>
    /\ jobs = <<>>
    /\ jobsClosed = FALSE
    /\ results = 0
    /\ resultsClosed = FALSE
    /\ sem = 0
    /\ wgTasks = 0
    /\ ctxDone = FALSE
    /\ collected = 0
    /\ steps = <<>>
    /\ handled = <<>>
    /\ finished = {}
    /\ released = <<>>
    /\ panicked = FALSE

(***************************************************************************)
(* NewRingBuffer, NewStockExchange, NewTechnicalAnalyzer and main up to    *)
(* the first go statement.                                                 *)
(***************************************************************************)
Init ==
    /\ size = Capacity
    /\ buffer = [i \in 0..(Capacity - 1) |-> ZeroData]
    /\ writePos = 0
    /\ readPos = 0
    /\ rwWriter = None
    /\ rwReaders = {}
    /\ pool = {}
    /\ pc = [p \in Roles \cup {"main"} |-> IF p = "main" THEN "launch" ELSE "idle"]
    /\ curW = [p \in Roles |-> 0]
    /\ curR = [p \in Roles |-> 0]
    /\ item = [p \in Producers |-> ZeroData]
    /\ data = [c \in Consumers |-> NoData]
    /\ produced = [p \in Producers |-> 0]
    /\ processed = [c \in Consumers |-> 0]
    /\ alerts = 0
    /\ cancelled = FALSE
    /\ wgCount = 0
    /\ launched = 0
    /\ attempts = 0
    /\ budget = RunAttempts
    /\ \E price \in Prices : priceSet = {price}
    /\ stats = NoStats
    /\ accepted = <<>>
    /\ delivered = [c \in Consumers |-> <<>>]
    /\ NewTechnicalAnalyzer
    /\ NoProgram

(***************************************************************************)
(* StockExchange.Start                                                     *)
(***************************************************************************)
\* case <-ticker.C: build the record and call se.buffer.Write(data), whose
\* rb.mutex.Lock() makes the caller the writer and holds new readers off
\* (a goroutine waiting in Lock for another writer is one still at "select")
ExchangeTick(p) ==
    /\ pc[p] = "select"
    /\ Alive
    /\ budget > 0
    /\ rwWriter = None
    /\ rwWriter' = p
    /\ \E symbol \in ExchangeSymbols, price \in priceSet :
          item' = [item EXCEPT ![p] =
                      [id |-> attempts + 1, symbol |-> symbol, price |-> price]]
    /\ attempts' = attempts + 1
    /\ budget' = budget - 1
    /\ UNCHANGED <<priceSet, size, analysisVars, taskVars>>
    /\ pc' = [pc EXCEPT ![p] = "w_load"]
    /\ UNCHANGED <<bufVars, rwReaders, pool, curW, curR, data, countVars,
                   mainVars, stats, histVars>>

\* case <-ctx.Done(): return, and the deferred wg.Done()
ExchangeStop(p) ==
    /\ pc[p] = "select"
    /\ Alive
    /\ cancelled
    /\ pc' = [pc EXCEPT ![p] = "done"]
    /\ wgCount' = wgCount - 1
    /\ UNCHANGED <<bufVars, lockVars, pool, curW, curR, item, data, countVars,
                   cancelled, launched, attempts, feedVars, taskVars,
                   analysisVars, stats, histVars>>

(***************************************************************************)
(* RingBuffer.Write                                                        *)
(***************************************************************************)
\* Lock() returns once the readers have left; the two atomic loads
WriteLoad(p) ==
    /\ pc[p] = "w_load"
    /\ Alive
    /\ rwWriter = p
    /\ CanLock
    /\ curW' = [curW EXCEPT ![p] = writePos]
    /\ curR' = [curR EXCEPT ![p] = readPos]
    /\ pc' = [pc EXCEPT ![p] = "w_store"]
    /\ UNCHANGED <<bufVars, lockVars, pool, item, data, countVars, mainVars,
                   attempts, feedVars, taskVars, analysisVars, stats,
                   histVars>>

\* a Write whose return on a full buffer leaves rb.mutex locked
WriteStoreNoUnlock(p) ==
    /\ pc[p] = "w_store"
    /\ Alive
    /\ IF IsFull(curW[p], curR[p])
         THEN /\ pc' = [pc EXCEPT ![p] = "select"]
              /\ UNCHANGED <<bufVars, accepted, rwWriter>>
         ELSE /\ buffer' = [buffer EXCEPT ![curW[p]] = item[p]]
              /\ writePos' = Advance(curW[p])
              /\ accepted' = Append(accepted, item[p].id)
              /\ pc' = [pc EXCEPT ![p] = "count"]
              /\ rwWriter' = None
              /\ UNCHANGED readPos
    /\ curW' = [curW EXCEPT ![p] = 0]
    /\ curR' = [curR EXCEPT ![p] = 0]
    /\ item' = [item EXCEPT ![p] = ZeroData]
    /\ UNCHANGED <<rwReaders, pool, data, countVars, mainVars, attempts,
                   feedVars, taskVars, analysisVars, stats, delivered>>

WriteStoreCountsFull(p) ==
    /\ pc[p] = "w_store"
    /\ Alive
    /\ IF IsFull(curW[p], curR[p])
         THEN /\ pc' = [pc EXCEPT ![p] = "count"]
              /\ UNCHANGED <<bufVars, accepted>>
         ELSE /\ buffer' = [buffer EXCEPT ![curW[p]] = item[p]]
              /\ writePos' = Advance(curW[p])
              /\ accepted' = Append(accepted, item[p].id)
              /\ pc' = [pc EXCEPT ![p] = "count"]
              /\ UNCHANGED readPos
    /\ rwWriter' = None
    /\ curW' = [curW EXCEPT ![p] = 0]
    /\ curR' = [curR EXCEPT ![p] = 0]
    /\ item' = [item EXCEPT ![p] = ZeroData]
    /\ UNCHANGED <<rwReaders, pool, data, countVars, mainVars, attempts,
                   feedVars, taskVars, analysisVars, stats, delivered>>

WriteStoreNextSlot(p) ==
    /\ pc[p] = "w_store"
    /\ Alive
    /\ IF IsFull(curW[p], curR[p])
         THEN /\ pc' = [pc EXCEPT ![p] = "select"]
              /\ UNCHANGED <<bufVars, accepted>>
         ELSE /\ buffer' = [buffer EXCEPT ![Advance(curW[p])] = item[p]]
              /\ writePos' = Advance(curW[p])
              /\ accepted' = Append(accepted, item[p].id)
              /\ pc' = [pc EXCEPT ![p] = "count"]
              /\ UNCHANGED readPos
    /\ rwWriter' = None
    /\ curW' = [curW EXCEPT ![p] = 0]
    /\ curR' = [curR EXCEPT ![p] = 0]
    /\ item' = [item EXCEPT ![p] = ZeroData]
    /\ UNCHANGED <<rwReaders, pool, data, countVars, mainVars, attempts,
                   feedVars, taskVars, analysisVars, stats, delivered>>

\* the full check; the slot and cursor stores; the deferred Unlock; return
WriteStore(p) ==
    /\ pc[p] = "w_store"
    /\ Alive
    /\ IF IsFull(curW[p], curR[p])
         THEN /\ pc' = [pc EXCEPT ![p] = "select"]
              /\ UNCHANGED <<bufVars, accepted>>
         ELSE /\ buffer' = [buffer EXCEPT ![curW[p]] = item[p]]
              /\ writePos' = Advance(curW[p])
              /\ accepted' = Append(accepted, item[p].id)
              /\ pc' = [pc EXCEPT ![p] = "count"]
              /\ UNCHANGED readPos
    /\ rwWriter' = None
    /\ curW' = [curW EXCEPT ![p] = 0]
    /\ curR' = [curR EXCEPT ![p] = 0]
    /\ item' = [item EXCEPT ![p] = ZeroData]
    /\ UNCHANGED <<rwReaders, pool, data, countVars, mainVars, attempts,
                   feedVars, taskVars, analysisVars, stats, delivered>>

\* if se.buffer.Write(data) { atomic.AddInt64(&se.produced, 1) }
ExchangeCount(p) ==
    /\ pc[p] = "count"
    /\ Alive
    /\ produced' = [produced EXCEPT ![p] = @ + 1]
    /\ pc' = [pc EXCEPT ![p] = "select"]
    /\ UNCHANGED <<bufVars, lockVars, pool, curW, curR, item, data, processed,
                   alerts, mainVars, attempts, feedVars, taskVars,
                   analysisVars, stats, histVars>>

(***************************************************************************)
(* PriceMonitor.Start and TechnicalAnalyzer.Start: the select              *)
(***************************************************************************)
\* case <-ticker.C: call buffer.Read(), whose rb.mutex.RLock() returns, and
\* currentRead := atomic.LoadInt64(&rb.readPos)
\* (a goroutine waiting in RLock is one still at "select")
ConsumerTick(c) ==
    /\ pc[c] = "select"
    /\ Alive
    /\ CanRLock
    /\ rwReaders' = rwReaders \cup {c}
    /\ curR' = [curR EXCEPT ![c] = readPos]
    /\ pc' = [pc EXCEPT ![c] = "r_check"]
    /\ UNCHANGED <<bufVars, rwWriter, pool, curW, item, data, countVars,
                   mainVars, attempts, feedVars, taskVars, analysisVars, stats,
                   histVars>>

\* case <-ctx.Done(): return, and the deferred wg.Done()
ConsumerStop(c) ==
    /\ pc[c] = "select"
    /\ Alive
    /\ cancelled
    /\ pc' = [pc EXCEPT ![c] = "done"]
    /\ wgCount' = wgCount - 1
    /\ UNCHANGED <<bufVars, lockVars, pool, curW, curR, item, data, countVars,
                   cancelled, launched, attempts, feedVars, taskVars,
                   analysisVars, stats, histVars>>

(***************************************************************************)
(* RingBuffer.Read                                                         *)
(***************************************************************************)
\* the containers handed out and not yet returned
Held == {data[c].k : c \in Consumers} \ {0}

GettableAny == Containers

\* what rb.pool.Get() may return: a pooled container, or a new one from New
Gettable ==
    LET unused == Containers \ (pool \cup Held)
    IN  pool \cup (IF unused = {} THEN {}
                   ELSE {CHOOSE k \in unused : \A j \in unused : k <= j})

\* currentWrite := atomic.LoadInt64(&rb.writePos); the empty check, which
\* returns (nil, false) through the deferred RUnlock; otherwise
\* data := rb.pool.Get().(*StockData); *data = rb.buffer[currentRead]
ReadCheck(c) ==
    /\ pc[c] = "r_check"
    /\ Alive
    /\ IF IsEmpty(curR[c], writePos)
         THEN /\ rwReaders' = rwReaders \ {c}
              /\ curR' = [curR EXCEPT ![c] = 0]
              /\ pc' = [pc EXCEPT ![c] = "select"]
              /\ UNCHANGED <<curW, pool, data>>
         ELSE /\ curW' = [curW EXCEPT ![c] = writePos]
              /\ \E k \in Gettable :
                    /\ pool' = pool \ {k}
                    /\ data' = [data EXCEPT ![c] =
                                   [k |-> k, val |-> buffer[curR[c]]]]
              /\ pc' = [pc EXCEPT ![c] = "r_store"]
              /\ UNCHANGED <<rwReaders, curR>>
    /\ UNCHANGED <<bufVars, rwWriter, item, countVars, mainVars, attempts,
                   feedVars, taskVars, analysisVars, stats, histVars>>

\* atomic.StoreInt64(&rb.readPos, ...); the deferred RUnlock; return data, true
ReadStore(c) ==
    /\ pc[c] = "r_store"
    /\ Alive
    /\ readPos' = Advance(curR[c])
    /\ rwReaders' = rwReaders \ {c}
    /\ delivered' = [delivered EXCEPT ![c] = Append(@, data[c].val.id)]
    /\ curW' = [curW EXCEPT ![c] = 0]
    /\ curR' = [curR EXCEPT ![c] = 0]
    /\ pc' = [pc EXCEPT ![c] = "process"]
    /\ UNCHANGED <<buffer, writePos, rwWriter, pool, item, data, countVars,
                   mainVars, attempts, feedVars, taskVars, analysisVars, stats,
                   accepted>>

(***************************************************************************)
(* PriceMonitor.Start and TechnicalAnalyzer.Start: a successful Read       *)
(***************************************************************************)
\* atomic.AddInt64(&pm.processed, 1), atomic.AddInt64(&ta.processed, 1)
ConsumerCount(c) ==
    /\ pc[c] = "process"
    /\ Alive
    /\ processed' = [processed EXCEPT ![c] = @ + 1]
    /\ pc' = [pc EXCEPT ![c] = "finish"]
    /\ UNCHANGED <<bufVars, lockVars, pool, curW, curR, item, data, produced,
                   alerts, mainVars, attempts, feedVars, taskVars,
                   analysisVars, stats, histVars>>

\* rb.pool.Put(data); the consumer's pointer goes out of scope
ReturnToPool(c) ==
    /\ pool' = pool \cup {data[c].k}
    /\ data' = [data EXCEPT ![c] = NoData]

\* PriceMonitor: the alert check, then pm.buffer.ReturnToPool(data)
MonitorFinish(c) ==
    /\ c = "pm"
    /\ pc[c] = "finish"
    /\ Alive
    /\ alerts' = IF ShouldAlert(data[c].val.price) THEN alerts + 1 ELSE alerts
    /\ ReturnToPool(c)
    /\ pc' = [pc EXCEPT ![c] = "select"]
    /\ UNCHANGED <<bufVars, lockVars, curW, curR, item, produced, processed,
                   mainVars, attempts, feedVars, taskVars, analysisVars, stats,
                   histVars>>

\* TechnicalAnalyzer: ta.updatePriceHistory(data.Symbol, data.Price), then
\* ta.calculateMovingAverage(data.Symbol), then ReturnToPool(data)
AnalyzerFinish(c) ==
    /\ c = "ta"
    /\ pc[c] = "finish"
    /\ Alive
    /\ LET symbol == data[c].val.symbol
           price == Float64(data[c].val.price)
       IN  /\ priceHistory' = updatePriceHistory(priceHistory, symbol, price)
           /\ recorded' = [recorded EXCEPT ![symbol] = Append(@, price)]
           /\ calls' = calls + 1
           /\ average' = [symbol |-> symbol,
                          value |-> calculateMovingAverage(priceHistory', symbol)]
    /\ ReturnToPool(c)
    /\ pc' = [pc EXCEPT ![c] = "select"]
    /\ UNCHANGED <<bufVars, lockVars, curW, curR, item, countVars, mainVars,
                   attempts, feedVars, taskVars, stats, histVars>>

(***************************************************************************)
(* PerformanceMonitor.Start, printStats and RingBuffer.GetStats            *)
(***************************************************************************)
\* case <-ticker.C: pm.printStats(...), which calls pm.buffer.GetStats(),
\* whose rb.mutex.RLock() returns
PerfTick ==
    /\ pc[Reporter] = "select"
    /\ Alive
    /\ CanRLock
    /\ rwReaders' = rwReaders \cup {Reporter}
    /\ pc' = [pc EXCEPT ![Reporter] = "s_loadW"]
    /\ UNCHANGED <<bufVars, rwWriter, pool, curW, curR, item, data, countVars,
                   mainVars, attempts, feedVars, taskVars, analysisVars, stats,
                   histVars>>

\* case <-ctx.Done(): return (this goroutine is not registered with wg)
PerfStop ==
    /\ pc[Reporter] = "select"
    /\ Alive
    /\ cancelled
    /\ pc' = [pc EXCEPT ![Reporter] = "done"]
    /\ UNCHANGED <<bufVars, lockVars, pool, curW, curR, item, data, countVars,
                   mainVars, attempts, feedVars, taskVars, analysisVars, stats,
                   histVars>>

\* GetStats: writePos := atomic.LoadInt64(&rb.writePos)
StatsLoadWrite ==
    /\ pc[Reporter] = "s_loadW"
    /\ Alive
    /\ curW' = [curW EXCEPT ![Reporter] = writePos]
    /\ pc' = [pc EXCEPT ![Reporter] = "s_loadR"]
    /\ UNCHANGED <<bufVars, lockVars, pool, curR, item, data, countVars,
                   mainVars, attempts, feedVars, taskVars, analysisVars, stats,
                   histVars>>

\* GetStats: readPos := atomic.LoadInt64(&rb.readPos); used; RUnlock; return
StatsLoadRead ==
    /\ pc[Reporter] = "s_loadR"
    /\ Alive
    /\ stats' = [w |-> curW[Reporter], r |-> readPos,
                 used |-> Used(curW[Reporter], readPos)]
    /\ rwReaders' = rwReaders \ {Reporter}
    /\ curW' = [curW EXCEPT ![Reporter] = 0]
    /\ pc' = [pc EXCEPT ![Reporter] = "print"]
    /\ UNCHANGED <<bufVars, rwWriter, pool, curR, item, data, countVars,
                   mainVars, attempts, feedVars, taskVars, analysisVars,
                   histVars>>

PrintStatsReset ==
    /\ pc[Reporter] = "print"
    /\ Alive
    /\ stats' = NoStats
    /\ processed' = [c \in Consumers |-> 0]
    /\ pc' = [pc EXCEPT ![Reporter] = "select"]
    /\ UNCHANGED <<bufVars, lockVars, pool, curW, curR, item, data, produced,
                   alerts, mainVars, attempts, feedVars, taskVars,
                   analysisVars, histVars>>

\* printStats after GetStats: loads every counter and prints the report
PrintStats ==
    /\ pc[Reporter] = "print"
    /\ Alive
    /\ stats' = NoStats
    /\ pc' = [pc EXCEPT ![Reporter] = "select"]
    /\ UNCHANGED <<bufVars, lockVars, pool, curW, curR, item, data, countVars,
                   mainVars, attempts, feedVars, taskVars, analysisVars,
                   histVars>>

(***************************************************************************)
(* main                                                                    *)
(***************************************************************************)
\* wg.Add(1); go x.Start(ctx, &wg)   and, last, go perfMonitor.Start(ctx)
MainLaunch ==
    /\ pc["main"] = "launch"
    /\ LET role == LaunchOrder[launched + 1]
       IN  /\ pc' = [pc EXCEPT ![role] = "select",
                               !["main"] = IF launched + 1 = Len(LaunchOrder)
                                           THEN "sleep" ELSE "launch"]
           /\ wgCount' = IF role \in Tracked THEN wgCount + 1 ELSE wgCount
    /\ launched' = launched + 1
    /\ UNCHANGED <<bufVars, lockVars, pool, curW, curR, item, data, countVars,
                   cancelled, attempts, feedVars, taskVars, analysisVars,
                   stats, histVars>>

MainCancelToggle ==
    /\ pc["main"] \in {"sleep", "wait"}
    /\ cancelled' = ~cancelled
    /\ pc' = [pc EXCEPT !["main"] = "wait"]
    /\ UNCHANGED <<bufVars, lockVars, pool, curW, curR, item, data, countVars,
                   wgCount, launched, attempts, feedVars, taskVars,
                   analysisVars, stats, histVars>>

\* time.Sleep(10 * time.Second) is over; cancel()
MainCancel ==
    /\ pc["main"] = "sleep"
    /\ cancelled' = TRUE
    /\ pc' = [pc EXCEPT !["main"] = "wait"]
    /\ UNCHANGED <<bufVars, lockVars, pool, curW, curR, item, data, countVars,
                   wgCount, launched, attempts, feedVars, taskVars,
                   analysisVars, stats, histVars>>

\* a Wait that returns at once
WaitDoneAtOnce == TRUE

\* wg.Wait() returns when the counter is zero
WaitDone == wgCount = 0

MainJoin ==
    /\ pc["main"] = "wait"
    /\ WaitDone
    /\ pc' = [pc EXCEPT !["main"] = "stopped"]
    /\ UNCHANGED <<bufVars, lockVars, pool, curW, curR, item, data, countVars,
                   mainVars, attempts, feedVars, taskVars, analysisVars, stats,
                   histVars>>

\* main prints its closing lines and returns: the process exits
MainExit ==
    /\ pc["main"] = "stopped"
    /\ pc' = [pc EXCEPT !["main"] = "exited"]
    /\ UNCHANGED <<bufVars, lockVars, pool, curW, curR, item, data, countVars,
                   mainVars, attempts, feedVars, taskVars, analysisVars, stats,
                   histVars>>

(***************************************************************************)
(* The whole program.                                                      *)
(***************************************************************************)
Next ==
    \/ \E p \in Producers : ExchangeTick(p)
    \/ \E p \in Producers : ExchangeStop(p)
    \/ \E p \in Producers : WriteLoad(p)
    \/ \E p \in Producers : WriteStore(p)
    \/ \E p \in Producers : ExchangeCount(p)
    \/ \E c \in Consumers : ConsumerTick(c)
    \/ \E c \in Consumers : ConsumerStop(c)
    \/ \E c \in Consumers : ReadCheck(c)
    \/ \E c \in Consumers : ReadStore(c)
    \/ \E c \in Consumers : ConsumerCount(c)
    \/ \E c \in Consumers : MonitorFinish(c)
    \/ \E c \in Consumers : AnalyzerFinish(c)
    \/ PerfTick
    \/ PerfStop
    \/ StatsLoadWrite
    \/ StatsLoadRead
    \/ PrintStats
    \/ MainLaunch
    \/ MainCancel
    \/ MainJoin
    \/ MainExit

Spec == Init /\ [][Next]_vars

(***************************************************************************)
(* The running phase: every goroutine has been started, main sleeps, and   *)
(* the exchanges RingWriters and both consumers use the buffer.            *)
(***************************************************************************)
RingWriters == {"e1", "e2"}

Started(n) ==
    /\ size = n
    /\ buffer = [i \in 0..(n - 1) |-> ZeroData]
    /\ writePos = 0
    /\ readPos = 0
    /\ rwWriter = None
    /\ rwReaders = {}
    /\ pool = {}
    /\ pc = [p \in Roles \cup {"main"} |-> IF p = "main" THEN "sleep" ELSE "select"]
    /\ curW = [p \in Roles |-> 0]
    /\ curR = [p \in Roles |-> 0]
    /\ item = [p \in Producers |-> ZeroData]
    /\ data = [c \in Consumers |-> NoData]
    /\ produced = [p \in Producers |-> 0]
    /\ processed = [c \in Consumers |-> 0]
    /\ alerts = 0
    /\ cancelled = FALSE
    /\ wgCount = Cardinality(Tracked)
    /\ launched = Len(LaunchOrder)
    /\ attempts = 0
    /\ stats = NoStats
    /\ accepted = <<>>
    /\ delivered = [c \in Consumers |-> <<>>]

Launched(n) == Started(n) /\ NewTechnicalAnalyzer /\ NoProgram

InitRing ==
    /\ Launched(Capacity)
    /\ budget = MaxAttempts
    /\ priceSet = {AlertThreshold + 5}

NextRing ==
    \/ \E p \in RingWriters : ExchangeTick(p)
    \/ \E p \in RingWriters : WriteLoad(p)
    \/ \E p \in RingWriters : WriteStore(p)
    \/ \E p \in RingWriters : ExchangeCount(p)
    \/ \E c \in Consumers : ConsumerTick(c)
    \/ \E c \in Consumers : ReadCheck(c)
    \/ \E c \in Consumers : ReadStore(c)
    \/ \E c \in Consumers : ConsumerCount(c)
    \/ \E c \in Consumers : MonitorFinish(c)
    \/ \E c \in Consumers : AnalyzerFinish(c)

SpecRing == InitRing /\ [][NextRing]_vars

(***************************************************************************)
(* The running phase with the reporter: one exchange, both consumers and   *)
(* the PerformanceMonitor use the buffer.                                  *)
(***************************************************************************)
NextStats ==
    \/ ExchangeTick("e1")
    \/ WriteLoad("e1")
    \/ WriteStore("e1")
    \/ ExchangeCount("e1")
    \/ \E c \in Consumers : ConsumerTick(c)
    \/ \E c \in Consumers : ReadCheck(c)
    \/ \E c \in Consumers : ReadStore(c)
    \/ \E c \in Consumers : ConsumerCount(c)
    \/ \E c \in Consumers : MonitorFinish(c)
    \/ \E c \in Consumers : AnalyzerFinish(c)
    \/ PerfTick
    \/ StatsLoadWrite
    \/ StatsLoadRead
    \/ PrintStats

SpecStats == InitRing /\ [][NextStats]_vars

(***************************************************************************)
(* The running phase of a buffer one slot larger, used by one exchange and *)
(* both consumers.                                                         *)
(***************************************************************************)
InitRace ==
    /\ Launched(Capacity + 1)
    /\ budget = MaxAttempts
    /\ priceSet = {AlertThreshold + 5}

NextRace ==
    \/ ExchangeTick("e1")
    \/ WriteLoad("e1")
    \/ WriteStore("e1")
    \/ ExchangeCount("e1")
    \/ \E c \in Consumers : ConsumerTick(c)
    \/ \E c \in Consumers : ReadCheck(c)
    \/ \E c \in Consumers : ReadStore(c)
    \/ \E c \in Consumers : ConsumerCount(c)
    \/ \E c \in Consumers : MonitorFinish(c)
    \/ \E c \in Consumers : AnalyzerFinish(c)

SpecRace == InitRace /\ [][NextRace]_vars

(***************************************************************************)
(* One writer and one reader on a buffer one slot larger, with one record  *)
(* more than it can hold.                                                  *)
(***************************************************************************)
InitSPSC ==
    /\ Launched(Capacity + 1)
    /\ budget = MaxAttempts + 1
    /\ priceSet = Prices

NextSPSC ==
    \/ ExchangeTick("e1")
    \/ WriteLoad("e1")
    \/ WriteStore("e1")
    \/ ExchangeCount("e1")
    \/ ConsumerTick("pm")
    \/ ReadCheck("pm")
    \/ ReadStore("pm")
    \/ ConsumerCount("pm")
    \/ MonitorFinish("pm")

SpecSPSC == InitSPSC /\ [][NextSPSC]_vars

(***************************************************************************)
(* Histories read by the properties.                                       *)
(***************************************************************************)
AcceptedIds == {accepted[i] : i \in 1..Len(accepted)}

DeliveredIds ==
    UNION {{delivered[c][i] : i \in 1..Len(delivered[c])} : c \in Consumers}

\* how many successful Reads returned record id
Deliveries(id) ==
    Cardinality({<<c, i>> \in UNION {{c} \X (1..Len(delivered[c])) :
                                         c \in Consumers} :
                    delivered[c][i] = id})

\* the place of record id in the order of acceptance (0: never accepted)
PosOf(id) ==
    IF id \in AcceptedIds
      THEN CHOOSE i \in 1..Len(accepted) : accepted[i] = id
      ELSE 0

\* records a Write stored that no Read has returned yet
ResidentIds == AcceptedIds \ DeliveredIds

\* records whose Write returned false
RejectedIds ==
    {id \in 1..attempts :
        id \notin AcceptedIds /\ \A p \in Producers : item[p].id # id}

FullNow == (writePos + 1) % size = readPos

EmptyNow == writePos = readPos

(***************************************************************************)
(* C1: at most size-1 records are resident in every reachable state,       *)
(* and a Write that holds the lock while (writePos+1) mod size =           *)
(* readPos returns false (the exchange goes back to its select without     *)
(* counting) and leaves writePos, readPos and every slot unchanged.        *)
(***************************************************************************)
C1_ResidentBound ==
    /\ writePos \in 0..(size - 1)
    /\ readPos \in 0..(size - 1)
    /\ Cardinality(ResidentIds) <= size - 1

C1_FullWriteStep ==
    \A p \in Producers :
        (pc[p] = "w_store" /\ FullNow) =>
            /\ UNCHANGED <<buffer, writePos, readPos>>
            /\ pc'[p] \in {"w_store", "select"}
            /\ produced'[p] = produced[p]
            /\ accepted' = accepted

C1_CapacityBound == [](C1_ResidentBound) /\ [][C1_FullWriteStep]_vars

\* the buffer is full and a Write has been rejected
C1_Witness ==
    /\ FullNow
    /\ Cardinality(ResidentIds) = size - 1
    /\ RejectedIds # {}

(***************************************************************************)
(* C2: no two operations among Write and Read are at the same time         *)
(* between their cursor load and their cursor store.                       *)
(***************************************************************************)
\* role q has loaded the cursors and its cursor store is still to come
Mutating(q) ==
    \/ q \in Producers /\ pc[q] = "w_store" /\ ~IsFull(curW[q], curR[q])
    \/ q \in Consumers /\ pc[q] = "r_store"

C2_MutualExclusion ==
    \A p, q \in Producers \cup Consumers :
        (p # q) => ~(Mutating(p) /\ Mutating(q))

(***************************************************************************)
(* C3: every accepted record is returned by at most one successful Read,   *)
(* and only accepted records are returned.                                 *)
(***************************************************************************)
C3_ExactlyOnce ==
    /\ DeliveredIds \subseteq AcceptedIds
    /\ \A id \in AcceptedIds : Deliveries(id) <= 1

(***************************************************************************)
(* C5: a consumer never receives a record that was accepted before a       *)
(* record it has already received.                                         *)
(***************************************************************************)
C5_ConsumerOrder ==
    \A c \in Consumers :
        \A i, j \in 1..Len(delivered[c]) :
            (i < j) => ~(PosOf(delivered[c][j]) < PosOf(delivered[c][i]))

(***************************************************************************)
(* C6: a Read that starts while readPos = writePos keeps seeing the buffer *)
(* empty until it returns, and it returns (nil, false): it goes back to    *)
(* the select holding no container, and the pool, the cursors and the      *)
(* slots are as before.                                                    *)
(***************************************************************************)
\* consumer c is in a Read that loaded readPos when it equalled writePos
EmptyRead(c) == pc[c] = "r_check" /\ curR[c] = writePos

C6_EmptyReadStep ==
    \A c \in Consumers :
        /\ (pc[c] = "select" /\ pc'[c] = "r_check" /\ EmptyNow)
              => EmptyRead(c)'
        /\ EmptyRead(c) =>
              IF pc'[c] = "r_check"
                THEN EmptyRead(c)'
                ELSE /\ pc'[c] = "select"
                     /\ data'[c] = NoData
                     /\ UNCHANGED <<pool, buffer, writePos, readPos>>
                     /\ delivered' = delivered

C6_EmptyRead == [][C6_EmptyReadStep]_vars

\* records have flowed, the buffer is empty again and a Read is finding it so
C6_Witness ==
    /\ Len(accepted) > 0
    /\ EmptyNow
    /\ \E c \in Consumers : EmptyRead(c)

(***************************************************************************)
(* C4: with one writer and one reader the records the Reads returned are,  *)
(* in order, a prefix of the records the Writes stored; a rejected record  *)
(* never appears; and once size-1 records are stored and none is read,     *)
(* no further record is stored.                                            *)
(***************************************************************************)
IsPrefix(s, t) ==
    /\ Len(s) <= Len(t)
    /\ \A i \in 1..Len(s) : s[i] = t[i]

C4_Prefix ==
    /\ IsPrefix(delivered["pm"], accepted)
    /\ RejectedIds \cap DeliveredIds = {}

C4_FilledStep ==
    (Len(accepted) = size - 1 /\ delivered["pm"] = <<>>)
        => accepted' = accepted

C4_Fifo == [](C4_Prefix) /\ [][C4_FilledStep]_vars

\* size-1 records were stored, the next was rejected, all were read back
\* in order and one more Read is finding the buffer empty
C4_Witness ==
    /\ Len(accepted) = size - 1
    /\ RejectedIds = {size}
    /\ delivered["pm"] = accepted
    /\ EmptyRead("pm")

(***************************************************************************)
(* C7: the used count of GetStats lies in 0..size-1, is 0 exactly when     *)
(* the cursors are equal and size-1 exactly when the buffer is full:       *)
(* for the cursors of every reachable state and for every triple GetStats  *)
(* returned.                                                               *)
(***************************************************************************)
UsedAgrees(w, r, used) ==
    /\ used \in 0..(size - 1)
    /\ (used = 0) <=> (w = r)
    /\ (used = size - 1) <=> ((w + 1) % size = r)

C7_UsedCount ==
    /\ UsedAgrees(writePos, readPos, Used(writePos, readPos))
    /\ (pc[Reporter] = "print") => UsedAgrees(stats.w, stats.r, stats.used)

\* GetStats has reported a full buffer
C7_Witness ==
    /\ pc[Reporter] = "print"
    /\ stats.used = size - 1

(***************************************************************************)
(* C8: the cursor pair GetStats returns is the pair the buffer holds at    *)
(* the instant of its second load, whatever ran between its two loads.     *)
(***************************************************************************)
C8_SnapshotStep ==
    (pc[Reporter] = "s_loadR" /\ pc'[Reporter] = "print")
        => (stats'.w = writePos /\ stats'.r = readPos)

C8_ConsistentPair == [][C8_SnapshotStep]_vars

\* GetStats returned while a Read was between its load and its store, and
\* the read cursor had moved since GetStats took the lock
C8_Witness ==
    /\ pc[Reporter] = "print"
    /\ stats.w # stats.r
    /\ stats.r # 0
    /\ \E c \in Consumers : pc[c] = "r_store"

(***************************************************************************)
(* C9: once wg.Wait has returned, no produced, processed or alert counter  *)
(* changes, every exchange and consumer has left its loop, and the buffer  *)
(* is not written or read.                                                 *)
(***************************************************************************)
Joined == pc["main"] \in {"stopped", "exited"}

C9_QuietStep ==
    Joined =>
        /\ UNCHANGED <<produced, processed, alerts>>
        /\ UNCHANGED <<buffer, writePos, readPos>>
        /\ \A q \in Tracked : pc[q] = "done" /\ pc'[q] = "done"

C9_QuietAfterJoin == [][C9_QuietStep]_vars

\* the join returned after records were produced, processed and alerted on
C9_Witness ==
    /\ pc["main"] = "stopped"
    /\ \E p \in Producers : produced[p] > 0
    /\ \E c \in Consumers : processed[c] > 0
    /\ alerts > 0

(***************************************************************************)
(* C10: when wg.Wait has returned, every goroutine main started has left   *)
(* its loop: the exchanges, the consumers and the reporter.                *)
(***************************************************************************)
C10_AllExited ==
    (pc["main"] = "stopped") => \A q \in Roles : pc[q] = "done"

(***************************************************************************)
(* C11: an exchange or a consumer that is at its select when ctx.Done() is *)
(* already closed leaves the loop at that iteration: it does not take the  *)
(* ticker case, so it starts no Write and no Read.                         *)
(***************************************************************************)
C11_ExitStep ==
    \A q \in Tracked :
        (cancelled /\ pc[q] = "select") => pc'[q] \in {"select", "done"}

C11_PromptExit == [][C11_ExitStep]_vars

(***************************************************************************)
(* The calls with the wait for rb.mutex as a step of its own: a goroutine  *)
(* that has taken the ticker case is inside Write, Read or GetStats and    *)
(* can no longer take the ctx.Done() case until the call returns.          *)
(***************************************************************************)
\* case <-ticker.C: build the record and call se.buffer.Write(data)
ExchangeCall(p) ==
    /\ pc[p] = "select"
    /\ Alive
    /\ budget > 0
    /\ \E symbol \in ExchangeSymbols, price \in priceSet :
          item' = [item EXCEPT ![p] =
                      [id |-> attempts + 1, symbol |-> symbol, price |-> price]]
    /\ attempts' = attempts + 1
    /\ budget' = budget - 1
    /\ UNCHANGED <<priceSet, size, analysisVars, taskVars>>
    /\ pc' = [pc EXCEPT ![p] = "w_lock"]
    /\ UNCHANGED <<bufVars, lockVars, pool, curW, curR, data, countVars,
                   mainVars, stats, histVars>>

\* rb.mutex.Lock(): the caller becomes the writer and holds new readers off
WriteLock(p) ==
    /\ pc[p] = "w_lock"
    /\ Alive
    /\ rwWriter = None
    /\ rwWriter' = p
    /\ pc' = [pc EXCEPT ![p] = "w_load"]
    /\ UNCHANGED <<bufVars, rwReaders, pool, curW, curR, item, data,
                   countVars, mainVars, attempts, feedVars, taskVars,
                   analysisVars, stats, histVars>>

\* case <-ticker.C: call buffer.Read()
ConsumerCall(c) ==
    /\ pc[c] = "select"
    /\ Alive
    /\ pc' = [pc EXCEPT ![c] = "r_lock"]
    /\ UNCHANGED <<bufVars, lockVars, pool, curW, curR, item, data, countVars,
                   mainVars, attempts, feedVars, taskVars, analysisVars, stats,
                   histVars>>

\* rb.mutex.RLock() returns; currentRead := atomic.LoadInt64(&rb.readPos)
ReadLock(c) ==
    /\ pc[c] = "r_lock"
    /\ Alive
    /\ CanRLock
    /\ rwReaders' = rwReaders \cup {c}
    /\ curR' = [curR EXCEPT ![c] = readPos]
    /\ pc' = [pc EXCEPT ![c] = "r_check"]
    /\ UNCHANGED <<bufVars, rwWriter, pool, curW, item, data, countVars,
                   mainVars, attempts, feedVars, taskVars, analysisVars, stats,
                   histVars>>

\* case <-ticker.C: pm.printStats(...), which calls pm.buffer.GetStats()
PerfCall ==
    /\ pc[Reporter] = "select"
    /\ Alive
    /\ pc' = [pc EXCEPT ![Reporter] = "s_lock"]
    /\ UNCHANGED <<bufVars, lockVars, pool, curW, curR, item, data, countVars,
                   mainVars, attempts, feedVars, taskVars, analysisVars, stats,
                   histVars>>

\* GetStats: rb.mutex.RLock() returns
StatsLock ==
    /\ pc[Reporter] = "s_lock"
    /\ Alive
    /\ CanRLock
    /\ rwReaders' = rwReaders \cup {Reporter}
    /\ pc' = [pc EXCEPT ![Reporter] = "s_loadW"]
    /\ UNCHANGED <<bufVars, rwWriter, pool, curW, curR, item, data, countVars,
                   mainVars, attempts, feedVars, taskVars, analysisVars, stats,
                   histVars>>

(***************************************************************************)
(* Scheduling.  The Go scheduler runs every runnable goroutine again, and  *)
(* rb.mutex lets no waiter starve (sync.Mutex hands over to a starved      *)
(* waiter, RWMutex.Unlock admits the readers that waited for the writer):  *)
(* weak fairness of every step of a call.  select picks at random among    *)
(* the ready cases, so ctx.Done(), once closed, is picked at some          *)
(* iteration even if the ticker is ready every time: strong fairness of    *)
(* the stop step of the consumers, whose ticker is never exhausted.  The   *)
(* tickers are not required to fire.                                       *)
(***************************************************************************)
FairWrite(p) ==
    /\ WF_vars(WriteLock(p))
    /\ WF_vars(WriteLoad(p))
    /\ WF_vars(WriteStore(p))
    /\ WF_vars(ExchangeCount(p))

FairRead(c) ==
    /\ WF_vars(ReadLock(c))
    /\ WF_vars(ReadCheck(c))
    /\ WF_vars(ReadStore(c))
    /\ WF_vars(ConsumerCount(c))
    /\ WF_vars(MonitorFinish(c))
    /\ WF_vars(AnalyzerFinish(c))

FairStats ==
    /\ WF_vars(StatsLock)
    /\ WF_vars(StatsLoadWrite)
    /\ WF_vars(StatsLoadRead)
    /\ WF_vars(PrintStats)

FairStop ==
    /\ \A p \in Producers : WF_vars(ExchangeStop(p))
    /\ \A c \in Consumers : SF_vars(ConsumerStop(c))

FairMain ==
    /\ WF_vars(MainCancel)
    /\ WF_vars(MainJoin)
    /\ WF_vars(MainExit)

(***************************************************************************)
(* The run of main from its Sleep to its return, under this scheduling.    *)
(***************************************************************************)
InitShutdown ==
    /\ Launched(Capacity)
    /\ budget = RunAttempts
    /\ priceSet = {AlertThreshold + 5}

NextShutdown ==
    \/ \E p \in Producers : ExchangeCall(p)
    \/ \E p \in Producers : WriteLock(p)
    \/ \E p \in Producers : WriteLoad(p)
    \/ \E p \in Producers : WriteStore(p)
    \/ \E p \in Producers : ExchangeCount(p)
    \/ \E p \in Producers : ExchangeStop(p)
    \/ \E c \in Consumers : ConsumerCall(c)
    \/ \E c \in Consumers : ReadLock(c)
    \/ \E c \in Consumers : ReadCheck(c)
    \/ \E c \in Consumers : ReadStore(c)
    \/ \E c \in Consumers : ConsumerCount(c)
    \/ \E c \in Consumers : MonitorFinish(c)
    \/ \E c \in Consumers : AnalyzerFinish(c)
    \/ \E c \in Consumers : ConsumerStop(c)
    \/ PerfCall
    \/ StatsLock
    \/ StatsLoadWrite
    \/ StatsLoadRead
    \/ PrintStats
    \/ PerfStop
    \/ MainCancel
    \/ MainJoin
    \/ MainExit

FairShutdown ==
    /\ \A p \in Producers : FairWrite(p)
    /\ \A c \in Consumers : FairRead(c)
    /\ FairStats
    /\ FairStop
    /\ FairMain

SpecShutdown == InitShutdown /\ [][NextShutdown]_vars /\ FairShutdown

(***************************************************************************)
(* C12: once cancel() has been called every exchange and consumer loop     *)
(* returns and wg.Wait() returns, and no goroutine main started is still   *)
(* running when main returns (none is cut off by the exit of the process). *)
(***************************************************************************)
C12_LoopsReturn == cancelled ~> (\A q \in Tracked : pc[q] = "done")

C12_JoinReturns == cancelled ~> Joined

C12_NoneCutOff ==
    [](pc["main"] = "exited" => \A q \in Roles : pc[q] = "done")

C12_Shutdown == C12_LoopsReturn /\ C12_JoinReturns /\ C12_NoneCutOff

(***************************************************************************)
(* The running phase entered when exchange e1 has stored k records that    *)
(* no consumer has read yet (0 <= k <= n-1): the calls of two exchanges,   *)
(* of the PriceMonitor and of the reporter, scheduled as above, with as    *)
(* many ticker deliveries as there are exchanges.                          *)
(***************************************************************************)
Running(n, k) ==
    /\ size = n
    /\ buffer = [i \in 0..(n - 1) |->
                    IF i < k THEN [id |-> i + 1, symbol |-> "AAPL",
                                   price |-> AlertThreshold + 5]
                             ELSE ZeroData]
    /\ writePos = k
    /\ readPos = 0
    /\ rwWriter = None
    /\ rwReaders = {}
    /\ pool = {}
    /\ pc = [p \in Roles \cup {"main"} |-> IF p = "main" THEN "sleep" ELSE "select"]
    /\ curW = [p \in Roles |-> 0]
    /\ curR = [p \in Roles |-> 0]
    /\ item = [p \in Producers |-> ZeroData]
    /\ data = [c \in Consumers |-> NoData]
    /\ produced = [p \in Producers |-> IF p = "e1" THEN k ELSE 0]
    /\ processed = [c \in Consumers |-> 0]
    /\ alerts = 0
    /\ cancelled = FALSE
    /\ wgCount = Cardinality(Tracked)
    /\ launched = Len(LaunchOrder)
    /\ attempts = k
    /\ stats = NoStats
    /\ accepted = [i \in 1..k |-> i]
    /\ delivered = [c \in Consumers |-> <<>>]
    /\ NewTechnicalAnalyzer
    /\ NoProgram

InitCalls ==
    /\ \E k \in 0..(Capacity - 1) : Running(Capacity, k)
    /\ budget = Cardinality(RingWriters)
    /\ priceSet = {AlertThreshold + 5}

NextCalls ==
    \/ \E p \in RingWriters : ExchangeCall(p)
    \/ \E p \in RingWriters : WriteLock(p)
    \/ \E p \in RingWriters : WriteLoad(p)
    \/ \E p \in RingWriters : WriteStore(p)
    \/ \E p \in RingWriters : ExchangeCount(p)
    \/ ConsumerCall("pm")
    \/ ReadLock("pm")
    \/ ReadCheck("pm")
    \/ ReadStore("pm")
    \/ ConsumerCount("pm")
    \/ MonitorFinish("pm")
    \/ PerfCall
    \/ StatsLock
    \/ StatsLoadWrite
    \/ StatsLoadRead
    \/ PrintStats

FairCalls ==
    /\ \A p \in RingWriters : FairWrite(p)
    /\ FairRead("pm")
    /\ FairStats

SpecCalls == InitCalls /\ [][NextCalls]_vars /\ FairCalls

(***************************************************************************)
(* C13: every Write and every Read that has been called returns, and a     *)
(* call that holds the lock can take its next step whatever the cursors    *)
(* are: Write does not wait on a full buffer, Read does not wait on an     *)
(* empty one (no consumer or exchange is required to tick).                *)
(***************************************************************************)
InWrite(p) == pc[p] \in {"w_lock", "w_load", "w_store"}

InRead(c) == pc[c] \in {"r_lock", "r_check", "r_store"}

C13_WriteReturns == \A p \in RingWriters : InWrite(p) ~> ~InWrite(p)

C13_ReadReturns == \A c \in Consumers : InRead(c) ~> ~InRead(c)

C13_NeverWaits ==
    /\ \A p \in RingWriters : (pc[p] = "w_store") => ENABLED WriteStore(p)
    /\ \A c \in Consumers : (pc[c] = "r_check") => ENABLED ReadCheck(c)
    /\ \A c \in Consumers : (pc[c] = "r_store") => ENABLED ReadStore(c)

C13_CallsReturn == C13_WriteReturns /\ C13_ReadReturns /\ [](C13_NeverWaits)

\* a Write has returned false on a buffer that is still full and was never
\* read, while the other exchange waits in Lock and a consumer is in Read
C13_Witness ==
    /\ FullNow
    /\ RejectedIds # {}
    /\ \A c \in Consumers : delivered[c] = <<>>
    /\ \E p \in RingWriters : pc[p] = "w_lock"
    /\ \E c \in Consumers : InRead(c)

(***************************************************************************)
(* C14: when the PriceMonitor finishes a record it got from Read, alerts   *)
(* grows by one if the price is above 140 (145 does, 140 does not) and is  *)
(* unchanged otherwise; no other step changes alerts; and alerts never     *)
(* exceeds the PriceMonitor's processed counter.                           *)
(***************************************************************************)
C14_AlertStep ==
    LET price == data["pm"].val.price
        checks == pc["pm"] = "finish" /\ pc'["pm"] # "finish"
    IN  /\ checks =>
              /\ alerts' \in {alerts, alerts + 1}
              /\ (alerts' = alerts + 1) <=> (price > AlertThreshold)
              /\ (price = AlertThreshold + 5) => (alerts' = alerts + 1)
              /\ (price = AlertThreshold) => (alerts' = alerts)
        /\ ~checks => (alerts' = alerts)

C14_Bound == alerts <= processed["pm"]

C14_Alerts == [](C14_Bound) /\ [][C14_AlertStep]_vars

\* the PriceMonitor has processed a record priced 145 and one priced 140,
\* and only the first raised an alert
C14_Witness ==
    /\ buffer[0].price = AlertThreshold + 5
    /\ buffer[1].price = AlertThreshold
    /\ delivered["pm"] = <<1, 2>>
    /\ processed["pm"] = 2
    /\ pc["pm"] = "select"
    /\ alerts = 1

(***************************************************************************)
(* The TechnicalAnalyzer on its own: updatePriceHistory and                *)
(* calculateMovingAverage are called with every symbol and price, starting *)
(* from the histories n earlier updates leave (none, one short of the      *)
(* averaging window, one short of the limit), the first price of a history *)
(* being possibly different from the others.                               *)
(***************************************************************************)
\* how many calls of updatePriceHistory a run makes
MaxCalls == 2

StartLengths == {0, AverageWindow - 1, HistoryLimit - 1}

Pattern(n, first, rest) == [i \in 1..n |-> IF i = 1 THEN first ELSE rest]

InitAnalyzer ==
    /\ Started(Capacity)
    /\ NoProgram
    /\ budget = 0
    /\ priceSet = {}
    /\ \E start \in [Symbols -> StartLengths \X AnalysisPrices \X AnalysisPrices] :
          LET prices(s) == Pattern(start[s][1], start[s][2], start[s][3])
          IN  /\ recorded = [s \in Symbols |-> prices(s)]
              /\ priceHistory =
                    [s \in {t \in Symbols : start[t][1] > 0} |-> prices(s)]
    /\ average = NoAverage
    /\ calls = 0

\* ta.updatePriceHistory(symbol, price)
UpdateCall(symbol, price) ==
    /\ calls < MaxCalls
    /\ priceHistory' = updatePriceHistory(priceHistory, symbol, price)
    /\ recorded' = [recorded EXCEPT ![symbol] = Append(@, price)]
    /\ calls' = calls + 1
    /\ UNCHANGED <<bufVars, lockVars, pool, pc, curW, curR, item, data,
                   countVars, mainVars, attempts, feedVars, taskVars, stats,
                   histVars, average>>

\* ta.calculateMovingAverage(symbol)
AverageCall(symbol) ==
    /\ average' = [symbol |-> symbol,
                   value |-> calculateMovingAverage(priceHistory, symbol)]
    /\ UNCHANGED <<bufVars, lockVars, pool, pc, curW, curR, item, data,
                   countVars, mainVars, attempts, feedVars, taskVars, stats,
                   histVars, priceHistory, recorded, calls>>

NextAnalyzer ==
    \/ \E symbol \in Symbols, price \in AnalysisPrices : UpdateCall(symbol, price)
    \/ \E symbol \in Symbols : AverageCall(symbol)

SpecAnalyzer == InitAnalyzer /\ [][NextAnalyzer]_vars

(***************************************************************************)
(* C15: after any sequence of updatePriceHistory calls the history of a    *)
(* symbol has at most 100 entries and is exactly the most recent           *)
(* min(n, 100) of the n prices recorded for that symbol, in arrival order  *)
(* (the oldest are evicted first); an update for one symbol leaves the     *)
(* history of every other symbol as it was.                                *)
(***************************************************************************)
LastOf(s, k) == SubSeq(s, Len(s) - k + 1, Len(s))

C15_MostRecent ==
    \A s \in Symbols :
        LET n == Len(recorded[s])
            k == IF n < HistoryLimit THEN n ELSE HistoryLimit
        IN  /\ Len(History(priceHistory, s)) <= HistoryLimit
            /\ History(priceHistory, s) = LastOf(recorded[s], k)
            /\ s \in DOMAIN priceHistory <=> n > 0

C15_OthersStep ==
    \A s \in Symbols :
        recorded'[s] = recorded[s]
            => History(priceHistory', s) = History(priceHistory, s)

C15_History == [](C15_MostRecent) /\ [][C15_OthersStep]_vars

\* 101 prices were recorded for a symbol, the first unlike the second: the
\* history holds the last 100, and the other symbol has a history too
C15_Witness ==
    \E s \in Symbols :
        /\ Len(recorded[s]) = HistoryLimit + 1
        /\ recorded[s][1] # recorded[s][2]
        /\ Len(priceHistory[s]) = HistoryLimit
        /\ priceHistory[s][1] = recorded[s][2]
        /\ priceHistory[s][HistoryLimit] = recorded[s][HistoryLimit + 1]
        /\ \E t \in Symbols \ {s} : Len(History(priceHistory, t)) > 0

(***************************************************************************)
(* C16: calculateMovingAverage(symbol) returns 0 when the symbol is        *)
(* unknown or has fewer than 20 recorded prices, and otherwise the mean of *)
(* the 20 most recently recorded prices of the symbol; with 20 identical   *)
(* prices V it returns V; it does not modify the history.                  *)
(***************************************************************************)
\* the exact sum of prices[first..last]
RECURSIVE ExactSum(_, _, _)
ExactSum(prices, first, last) ==
    IF last < first THEN FZero
    ELSE LET rest == ExactSum(prices, first, last - 1)
         IN  IF rest = FZero THEN prices[last] ELSE AddExact(rest, prices[last])

\* the float64 nearest to the mean of the last AverageWindow prices
Mean(prices) ==
    FDiv(ExactSum(prices, Len(prices) - AverageWindow + 1, Len(prices)),
         AverageWindow)

\* the step is a call of calculateMovingAverage for symbol s
Averaged(s) == average' # average /\ average'.symbol = s

C16_ZeroStep ==
    \A s \in Symbols :
        Averaged(s) /\ Len(recorded[s]) < AverageWindow
            => average'.value = FZero

C16_MeanStep ==
    \A s \in Symbols :
        Averaged(s) /\ Len(recorded[s]) >= AverageWindow
            => average'.value = Mean(recorded[s])

C16_IdenticalStep ==
    \A s \in Symbols :
        LET prices == recorded[s]
        IN  /\ Averaged(s)
            /\ Len(prices) = AverageWindow
            /\ \A i \in 1..Len(prices) : prices[i] = prices[1]
            => average'.value = prices[1]

C16_FrameStep ==
    (average' # average) => priceHistory' = priceHistory /\ recorded' = recorded

C16_ZeroOnly == [][C16_ZeroStep /\ C16_FrameStep]_vars

C16_MeanOnly == [][C16_MeanStep]_vars

C16_IdenticalOnly == [][C16_IdenticalStep]_vars

C16_Average ==
    [][C16_ZeroStep /\ C16_MeanStep /\ C16_IdenticalStep /\ C16_FrameStep]_vars

(***************************************************************************)
(* C17: the reporter never mutates shared state: every step of printStats, *)
(* its GetStats call included, leaves writePos, readPos, every buffer      *)
(* slot, the produced, processed and alert counters and the price history  *)
(* unchanged.                                                              *)
(***************************************************************************)
ReporterStep == pc'[Reporter] # pc[Reporter]

C17_ReporterFrame ==
    ReporterStep =>
        /\ UNCHANGED <<buffer, writePos, readPos>>
        /\ UNCHANGED <<produced, processed, alerts>>
        /\ UNCHANGED <<priceHistory, recorded>>

C17_ReadOnly == [][C17_ReporterFrame]_vars

\* GetStats has returned to printStats while records are stored, counted,
\* alerted on and kept in the price history
C17_Witness ==
    /\ pc[Reporter] = "print"
    /\ stats.w > 0
    /\ stats.r > 0
    /\ produced["e1"] > 0
    /\ processed["pm"] > 0
    /\ processed["ta"] > 0
    /\ alerts > 0
    /\ Len(History(priceHistory, "AAPL")) > 0
    /\ \E i \in 0..(size - 1) : buffer[i] # ZeroData

(***************************************************************************)
(* C18: no consumer reads or retains a record container after passing it   *)
(* to ReturnToPool, and a container obtained by one Read is never held by  *)
(* two consumers at the same time: between Read handing it out and that    *)
(* consumer's ReturnToPool no other Read receives or overwrites it.        *)
(***************************************************************************)
\* the positions at which a consumer has a container from rb.pool.Get()
Holding(c) == pc[c] \in {"r_store", "process", "finish"}

C18_Exclusive ==
    /\ \A c \in Consumers :
          /\ Holding(c) <=> data[c].k # 0
          /\ ~Holding(c) => data[c] = NoData
    /\ \A c, d \in Consumers : c # d /\ data[c].k # 0 => data[c].k # data[d].k
    /\ Held \cap pool = {}

C18_HeldStep ==
    \A c \in Consumers :
        data[c].k # 0 =>
            \/ data'[c] = data[c]
            \/ /\ pc[c] = "finish"
               /\ data'[c] = NoData
               /\ pool' = pool \cup {data[c].k}

C18_Containers == [](C18_Exclusive) /\ [][C18_HeldStep]_vars

\* both consumers process a record, each in its own container, after the
\* analyzer has returned a container and Read has handed it one again
C18_Witness ==
    /\ pc["pm"] = "finish"
    /\ pc["ta"] = "finish"
    /\ data["pm"].k # data["ta"].k
    /\ data["pm"].val.id # data["ta"].val.id
    /\ processed["ta"] = 2
    /\ pool = {}

(***************************************************************************)
(* C19: each successful Read advances the read cursor by exactly one slot: *)
(* the cursor never moves backward and never repeats a position for two    *)
(* successful Reads, so once no Read is in progress readPos equals the     *)
(* number of Reads that returned true, mod the capacity.                   *)
(***************************************************************************)
\* the number of Reads that have returned (data, true)
SuccessfulReads == Len(delivered["pm"]) + Len(delivered["ta"])

NoReadInProgress == \A c \in Consumers : ~InRead(c)

C19_Quiescent == NoReadInProgress => readPos = SuccessfulReads % size

C19_ForwardStep ==
    \A c \in Consumers :
        Len(delivered'[c]) = Len(delivered[c]) + 1
            => readPos' = (readPos + 1) % size

C19_QuiescentOnly == [](C19_Quiescent)

C19_ForwardOnly == [][C19_ForwardStep]_vars

C19_ReadCursor == [](C19_Quiescent) /\ [][C19_ForwardStep]_vars

(***************************************************************************)
(* C20: a successful Write stores the record in the slot at the old write  *)
(* cursor, advances writePos by exactly one mod the capacity, and leaves   *)
(* readPos and every other slot unchanged; a Read never modifies writePos  *)
(* or any buffer slot.                                                     *)
(***************************************************************************)
\* the step on which the Write of p returns true
WriteSucceeds(p) == pc[p] = "w_store" /\ pc'[p] = "count"

\* a step of the Read of c
ReadSteps(c) == InRead(c) /\ pc'[c] # pc[c]

C20_WriteStep ==
    \A p \in Producers :
        WriteSucceeds(p) =>
            /\ buffer'[writePos] = item[p]
            /\ \A i \in 0..(size - 1) : i # writePos => buffer'[i] = buffer[i]
            /\ writePos' = (writePos + 1) % size
            /\ readPos' = readPos

C20_ReadStep ==
    \A c \in Consumers :
        ReadSteps(c) => writePos' = writePos /\ buffer' = buffer

C20_Frames == [][C20_WriteStep /\ C20_ReadStep]_vars

\* the third record has just been stored in the last slot and the write
\* cursor has wrapped, while a consumer is inside Read and has advanced
\* the read cursor before
C20_Witness ==
    /\ \E p \in RingWriters : pc[p] = "count"
    /\ Len(accepted) = size
    /\ writePos = 0
    /\ buffer[size - 1].id = accepted[size]
    /\ buffer[0].id = accepted[1]
    /\ readPos > 0
    /\ \E c \in Consumers : pc[c] = "r_store"

(***************************************************************************)
(* C21: a producer increments its produced counter by exactly one for each *)
(* Write that returned true and never for a Write that returned false; a   *)
(* rejected record is not retried or written later, so once the producers  *)
(* are idle the produced counters equal the number of accepted records.    *)
(***************************************************************************)
RECURSIVE Total(_, _)
Total(f, S) ==
    IF S = {} THEN 0
    ELSE LET x == CHOOSE y \in S : TRUE
         IN  f[x] + Total(f, S \ {x})

\* the producers between a Write that returned true and the increment
Counting == {p \in Producers : pc[p] = "count"}

\* no producer is inside Write or about to count
ProducersIdle == \A p \in Producers : pc[p] \in {"idle", "select", "done"}

C21_Counted ==
    /\ Total(produced, Producers) + Cardinality(Counting) = Len(accepted)
    /\ ProducersIdle => Total(produced, Producers) = Len(accepted)

C21_CountStep ==
    \A p \in Producers :
        /\ produced'[p] # produced[p] =>
              /\ pc[p] = "count"
              /\ pc'[p] = "select"
              /\ produced'[p] = produced[p] + 1
        /\ pc[p] # "count" /\ pc'[p] = "count" =>
              /\ pc[p] = "w_store"
              /\ accepted' = Append(accepted, item[p].id)
        /\ pc[p] = "w_store" /\ pc'[p] = "select" =>
              /\ accepted' = accepted
              /\ UNCHANGED <<buffer, writePos>>
              /\ item[p].id \in RejectedIds'

C21_NoRetryStep == RejectedIds \subseteq RejectedIds'

C21_Produced == [](C21_Counted) /\ [][C21_CountStep /\ C21_NoRetryStep]_vars

\* the producers are idle after a Write was rejected and the others
\* were accepted and counted
C21_Witness ==
    /\ ProducersIdle
    /\ RejectedIds # {}
    /\ budget = 0
    /\ produced["e1"] > 0
    /\ produced["e2"] > 0
    /\ produced["e1"] + produced["e2"] = Len(accepted)
    /\ Len(accepted) + Cardinality(RejectedIds) = attempts

(***************************************************************************)
(* C22: the cancellation signal is raised exactly once, by main only,      *)
(* after every role has been launched, and is never reset: once it is set  *)
(* it is set in every later state, and no role ever sets it.               *)
(***************************************************************************)
AllLaunched == launched = Len(LaunchOrder) /\ \A q \in Roles : pc[q] # "idle"

C22_RaiseStep ==
    cancelled' # cancelled =>
        /\ ~cancelled
        /\ cancelled'
        /\ pc["main"] = "sleep"
        /\ pc'["main"] = "wait"
        /\ AllLaunched
        /\ \A q \in Roles : pc'[q] = pc[q]

C22_StayStep == cancelled => cancelled'

C22_Raised == cancelled <=> pc["main"] \in {"wait", "stopped", "exited"}

C22_CancelOnce == [](C22_Raised) /\ [][C22_RaiseStep /\ C22_StayStep]_vars

\* after cancel() one consumer has returned on ctx.Done(), an exchange is
\* still inside Write and main waits
C22_Witness ==
    /\ cancelled
    /\ pc["main"] = "wait"
    /\ \E c \in Consumers : pc[c] = "done"
    /\ \E p \in Producers : pc[p] = "w_store"
    /\ \E q \in Tracked : pc[q] = "select"

(***************************************************************************)
(* C23: conservation of records: in any state where no Write or Read is in *)
(* progress and all counter updates are complete, the sum of the           *)
(* producers' produced counters equals the sum of both consumers'          *)
(* processed counters plus the used count GetStats reports.                *)
(***************************************************************************)
\* no Write, no Read and no counter update is in progress
Settled ==
    /\ ProducersIdle
    /\ \A c \in Consumers : pc[c] \in {"idle", "select", "finish", "done"}

C23_Conservation ==
    Settled =>
        Total(produced, Producers) =
            Total(processed, Consumers) + Used(writePos, readPos)

(***************************************************************************)
(* The running phase of one exchange and both consumers entered when the   *)
(* exchange has filled the buffer, with enough ticker deliveries for the   *)
(* write cursor to come round to the first slot again.                     *)
(***************************************************************************)
InitLap ==
    /\ Running(Capacity, Capacity - 1)
    /\ budget = Cardinality(RingWriters)
    /\ priceSet = {AlertThreshold + 5}

NextLap ==
    \/ ExchangeTick("e1")
    \/ WriteLoad("e1")
    \/ WriteStore("e1")
    \/ ExchangeCount("e1")
    \/ \E c \in Consumers : ConsumerTick(c)
    \/ \E c \in Consumers : ReadCheck(c)
    \/ \E c \in Consumers : ReadStore(c)
    \/ \E c \in Consumers : ConsumerCount(c)
    \/ \E c \in Consumers : MonitorFinish(c)
    \/ \E c \in Consumers : AnalyzerFinish(c)

SpecLap == InitLap /\ [][NextLap]_vars

(***************************************************************************)
(* C24: no accepted record is lost: a Write never overwrites a slot whose  *)
(* record has not yet been returned by at least one Read, and every record *)
(* returned by Read is a record stored by an earlier successful Write.     *)
(***************************************************************************)
C24_OverwriteStep ==
    \A p \in Producers :
        WriteSucceeds(p) =>
            buffer[writePos] = ZeroData \/ buffer[writePos].id \in DeliveredIds

C24_ReturnStep ==
    \A c \in Consumers :
        Len(delivered'[c]) = Len(delivered[c]) + 1 =>
            /\ data[c].val.id \in AcceptedIds
            /\ data[c].val # ZeroData

C24_OverwriteOnly == [][C24_OverwriteStep]_vars

C24_ReturnOnly == [][C24_ReturnStep]_vars

C24_NoLoss == [][C24_OverwriteStep /\ C24_ReturnStep]_vars

\* the write cursor has come round: the first slot, whose first record a
\* Read had returned, holds a later record, and both consumers have been
\* handed records
C24_Witness ==
    /\ buffer[0].id > 1
    /\ buffer[0].id \in AcceptedIds
    /\ 1 \in DeliveredIds
    /\ delivered["pm"] # <<>>
    /\ delivered["ta"] # <<>>
    /\ DeliveredIds \subseteq AcceptedIds

(***************************************************************************)
(* The worker-pool programs: five workers range over the jobs channel.     *)
(* In "results" every worker sends a result that main receives; in        *)
(* "waitgroup" the workers call wg.Done() and main calls wg.Wait().        *)
(***************************************************************************)
\* how many jobs main sends, which is also the capacity of both channels
MaxJobs == 2

\* for w := 1; w <= 5; w++
NumWorkers == 5

Workers == 1..NumWorkers

Jobs == 1..MaxJobs

WorkerPrograms == {"results", "waitgroup"}

\* main up to the first send: the channels are made, the workers started
InitWorkers ==
    /\ Started(Capacity)
    /\ NewTechnicalAnalyzer
    /\ budget = 0
    /\ priceSet = {}
    /\ program \in WorkerPrograms
    /\ mainPc = "send"
    /\ closerPc = "idle"
    /\ taskPc = [w \in Workers |-> "receive"]
    /\ current = [w \in Workers |-> 0]
    /\ jobs = <<>>
    /\ jobsClosed = FALSE
    /\ results = 0
    /\ resultsClosed = FALSE
    /\ sem = 0
    /\ wgTasks = IF program = "waitgroup" THEN NumWorkers ELSE 0
    /\ ctxDone = FALSE
    /\ collected = 0
    /\ steps = [w \in Workers |-> 0]
    /\ handled = [j \in Jobs |-> <<>>]
    /\ finished = {}
    /\ released = [w \in Workers |-> 0]
    /\ panicked = FALSE

\* the process runs until main returns
WorkersAlive == mainPc # "exited"

\* jobs <- fmt.Sprintf(...), for j := 0; j < 100; j++
MainSend ==
    /\ mainPc = "send"
    /\ Len(jobs) < MaxJobs
    /\ LET sent == Len(jobs) + Cardinality({j \in Jobs : handled[j] # <<>>})
       IN  /\ jobs' = Append(jobs, sent + 1)
           /\ mainPc' = IF sent + 1 = MaxJobs THEN "close" ELSE "send"
    /\ UNCHANGED <<pipelineVars, program, closerPc, taskPc, current, jobsClosed,
                   results, resultsClosed, sem, wgTasks, ctxDone, collected,
                   steps, handled, finished, released, panicked>>

\* close(jobs)
MainClose ==
    /\ mainPc = "close"
    /\ jobsClosed' = TRUE
    /\ mainPc' = IF program = "waitgroup" THEN "wait" ELSE "collect"
    /\ UNCHANGED <<pipelineVars, program, closerPc, taskPc, current, jobs,
                   results, resultsClosed, sem, wgTasks, ctxDone, collected,
                   steps, handled, finished, released, panicked>>

\* <-results, for a := 0; a < 100; a++
MainCollect ==
    /\ mainPc = "collect"
    /\ results > 0
    /\ results' = results - 1
    /\ collected' = collected + 1
    /\ mainPc' = IF collected + 1 = MaxJobs THEN "complete" ELSE "collect"
    /\ UNCHANGED <<pipelineVars, program, closerPc, taskPc, current, jobs,
                   jobsClosed, resultsClosed, sem, wgTasks, ctxDone, steps,
                   handled, finished, released, panicked>>

\* wg.Wait() returns
MainWait ==
    /\ mainPc = "wait"
    /\ wgTasks = 0
    /\ mainPc' = "complete"
    /\ UNCHANGED <<pipelineVars, program, closerPc, taskPc, current, chanVars,
                   wgTasks, ctxDone, collected, steps, handled, finished,
                   released, panicked>>

\* fmt.Println("所有任务都已完成。") and the return of main: the process exits
MainComplete ==
    /\ mainPc = "complete"
    /\ mainPc' = "exited"
    /\ UNCHANGED <<pipelineVars, program, closerPc, taskPc, current, chanVars,
                   wgTasks, ctxDone, collected, steps, handled, finished,
                   released, panicked>>

WorkerReceiveKeep(w) ==
    /\ WorkersAlive
    /\ taskPc[w] = "receive"
    /\ jobs # <<>>
    /\ Len(handled[Head(jobs)]) < NumWorkers
    /\ current' = [current EXCEPT ![w] = Head(jobs)]
    /\ handled' = [handled EXCEPT ![Head(jobs)] = Append(@, w)]
    /\ jobs' = jobs
    /\ taskPc' = [taskPc EXCEPT ![w] = "work"]
    /\ UNCHANGED <<pipelineVars, program, mainPc, closerPc, jobsClosed, results,
                   resultsClosed, sem, wgTasks, ctxDone, collected, steps,
                   finished, released, panicked>>

\* for j := range jobs: a job is received
WorkerReceive(w) ==
    /\ WorkersAlive
    /\ taskPc[w] = "receive"
    /\ jobs # <<>>
    /\ current' = [current EXCEPT ![w] = Head(jobs)]
    /\ handled' = [handled EXCEPT ![Head(jobs)] = Append(@, w)]
    /\ jobs' = Tail(jobs)
    /\ taskPc' = [taskPc EXCEPT ![w] = "work"]
    /\ UNCHANGED <<pipelineVars, program, mainPc, closerPc, jobsClosed, results,
                   resultsClosed, sem, wgTasks, ctxDone, collected, steps,
                   finished, released, panicked>>

\* for j := range jobs: the channel is closed and empty, the loop ends and
\* the worker returns (with the deferred wg.Done() in "waitgroup")
WorkerReturn(w) ==
    /\ WorkersAlive
    /\ taskPc[w] = "receive"
    /\ jobs = <<>>
    /\ jobsClosed
    /\ taskPc' = [taskPc EXCEPT ![w] = "done"]
    /\ wgTasks' = IF program = "waitgroup" THEN wgTasks - 1 ELSE wgTasks
    /\ UNCHANGED <<pipelineVars, program, mainPc, closerPc, current, chanVars,
                   ctxDone, collected, steps, handled, finished, released,
                   panicked>>

\* time.Sleep(1 * time.Second) and the "完成" line: the job is finished
WorkerFinish(w) ==
    /\ WorkersAlive
    /\ taskPc[w] = "work"
    /\ finished' = finished \cup {current[w]}
    /\ taskPc' = [taskPc EXCEPT ![w] =
                     IF program = "results" THEN "result" ELSE "receive"]
    /\ current' = [current EXCEPT ![w] =
                      IF program = "results" THEN @ ELSE 0]
    /\ UNCHANGED <<pipelineVars, program, mainPc, closerPc, chanVars, wgTasks,
                   ctxDone, collected, steps, handled, released, panicked>>

\* results <- fmt.Sprintf("结果: %s 完成", j)
WorkerResult(w) ==
    /\ WorkersAlive
    /\ taskPc[w] = "result"
    /\ results < MaxJobs
    /\ results' = results + 1
    /\ current' = [current EXCEPT ![w] = 0]
    /\ taskPc' = [taskPc EXCEPT ![w] = "receive"]
    /\ UNCHANGED <<pipelineVars, program, mainPc, closerPc, jobs, jobsClosed,
                   resultsClosed, sem, wgTasks, ctxDone, collected, steps,
                   handled, finished, released, panicked>>

NextWorkers ==
    \/ MainSend
    \/ MainClose
    \/ MainCollect
    \/ MainWait
    \/ MainComplete
    \/ \E w \in Workers : WorkerReceive(w)
    \/ \E w \in Workers : WorkerReturn(w)
    \/ \E w \in Workers : WorkerFinish(w)
    \/ \E w \in Workers : WorkerResult(w)

\* the Go scheduler runs every goroutine that can run, and a channel
\* operation that stays possible is performed
FairWorkers ==
    /\ WF_vars(MainSend)
    /\ WF_vars(MainClose)
    /\ WF_vars(MainCollect)
    /\ WF_vars(MainWait)
    /\ WF_vars(MainComplete)
    /\ \A w \in Workers :
          WF_vars(WorkerReceive(w) \/ WorkerReturn(w) \/ WorkerFinish(w)
                    \/ WorkerResult(w))

SpecWorkers == InitWorkers /\ [][NextWorkers]_vars /\ FairWorkers

(***************************************************************************)
(* C25: in the worker-pool programs each job sent on the jobs channel is   *)
(* processed by exactly one of the 5 workers, a worker's receive loop ends *)
(* only after the channel is closed and drained, main reaches its          *)
(* completion message only after every job has been finished, and neither  *)
(* main nor any worker blocks forever.                                     *)
(***************************************************************************)
Completed == mainPc \in {"complete", "exited"}

C25_ExactlyOne ==
    /\ \A j \in Jobs : Len(handled[j]) <= 1
    /\ Completed =>
          /\ \A j \in Jobs : Len(handled[j]) = 1 /\ j \in finished
          /\ jobs = <<>>
          /\ program = "results" => collected = MaxJobs
          /\ program = "waitgroup" => \A w \in Workers : taskPc[w] = "done"

C25_LoopEndStep ==
    \A w \in Workers :
        taskPc[w] # "done" /\ taskPc'[w] = "done" => jobsClosed /\ jobs = <<>>

C25_MainCompletes == <>(mainPc = "exited")

\* a worker that waits can go on, or main is about to send or to close
C25_NoneStuck ==
    \A w \in Workers :
        /\ taskPc[w] = "result" => results < MaxJobs
        /\ taskPc[w] = "receive" =>
              jobs # <<>> \/ jobsClosed \/ mainPc \in {"send", "close"}

C25_WorkerPool ==
    /\ [](C25_ExactlyOne)
    /\ [][C25_LoopEndStep]_vars
    /\ [](C25_NoneStuck)
    /\ C25_MainCompletes

\* main is at its completion message: every job went to one worker, two of
\* them to different workers, and a worker has seen the closed channel
C25_Witness ==
    /\ mainPc = "complete"
    /\ \A j \in Jobs : Len(handled[j]) = 1 /\ j \in finished
    /\ \E j, k \in Jobs : handled[j] # handled[k]
    /\ \E w \in Workers : taskPc[w] = "done"
    /\ \E w \in Workers : taskPc[w] = "receive"

(***************************************************************************)
(* The calcPowerFlow programs: main starts one goroutine per snapshot and  *)
(* collects their results until a timeout fires.                           *)
(*   "v2"  v2_timeout: the goroutine sleeps and sends; main selects on    *)
(*         results and on the timer                                        *)
(*   "v3"  v3_context: the goroutine checks ctx.Done() at every step and   *)
(*         at the send; main selects on results and on ctx.Done()          *)
(*   "v4"  v4_worker_pool: v3 with a semaphore channel, a WaitGroup and a  *)
(*         goroutine that closes results                                   *)
(*   "v6"  v6_graceful_shutdown: v4 whose goroutines always send and whose *)
(*         main ranges over results                                        *)
(***************************************************************************)
\* totalSnapshots, which is also the capacity of the results channel
MaxTasks == 3

\* maxWorkers, the capacity of the sem channel
MaxWorkers == 2

\* the most steps rand.Intn(5) + 1 gives a calculation
MaxSteps == 2

Tasks == 1..MaxTasks

ResultsCapShort == MaxTasks - 1

\* results := make(chan float64, totalSnapshots)
ResultsCap == MaxTasks

PoolPrograms == {"v4", "v6"}

TimeoutPrograms == {"v2", "v3"}

\* the programs whose calcPowerFlow takes the context
ContextPrograms == {"v3", "v4", "v6"}

\* main up to its collecting loop: every goroutine has been started
Collecting(programs) ==
    /\ Started(Capacity)
    /\ NewTechnicalAnalyzer
    /\ budget = 0
    /\ priceSet = {}
    /\ program \in programs
    /\ mainPc = "collect"
    /\ closerPc = IF program \in PoolPrograms THEN "wait" ELSE "idle"
    /\ taskPc = [t \in Tasks |->
                    IF program \in PoolPrograms THEN "acquire" ELSE "calc"]
    /\ current = [t \in Tasks |-> 0]
    /\ jobs = <<>>
    /\ jobsClosed = FALSE
    /\ results = 0
    /\ resultsClosed = FALSE
    /\ sem = 0
    /\ wgTasks = IF program \in PoolPrograms THEN MaxTasks ELSE 0
    /\ ctxDone = FALSE
    /\ collected = 0
    /\ steps \in [Tasks -> IF program \in PoolPrograms THEN {0}
                                                       ELSE 1..MaxSteps]
    /\ handled = <<>>
    /\ finished = {}
    /\ released = [t \in Tasks |-> 0]
    /\ panicked = FALSE

\* the process runs until main returns or a goroutine panics
PoolAlive == mainPc # "exited" /\ ~panicked

\* where a goroutine goes when calcPowerFlow and its own sends are over
AfterWork == IF program \in PoolPrograms THEN "release" ELSE "done"

\* the timer fires: ctx.Done() is closed, or the timeout channel is ready
Timeout ==
    /\ PoolAlive
    /\ ~ctxDone
    /\ ctxDone' = TRUE
    /\ UNCHANGED <<pipelineVars, program, mainPc, closerPc, taskPc, current,
                   chanVars, wgTasks, collected, steps, handled, finished,
                   released, panicked>>

TaskAcquireUnbounded(t) ==
    /\ PoolAlive
    /\ taskPc[t] = "acquire"
    /\ sem' = sem + 1
    /\ \E n \in 1..MaxSteps : steps' = [steps EXCEPT ![t] = n]
    /\ taskPc' = [taskPc EXCEPT ![t] = "calc"]
    /\ UNCHANGED <<pipelineVars, program, mainPc, closerPc, current, jobs,
                   jobsClosed, results, resultsClosed, wgTasks, ctxDone,
                   collected, handled, finished, released, panicked>>

\* sem <- struct{}{}, then calcPowerFlow draws its number of steps
TaskAcquire(t) ==
    /\ PoolAlive
    /\ taskPc[t] = "acquire"
    /\ sem < MaxWorkers
    /\ sem' = sem + 1
    /\ \E n \in 1..MaxSteps : steps' = [steps EXCEPT ![t] = n]
    /\ taskPc' = [taskPc EXCEPT ![t] = "calc"]
    /\ UNCHANGED <<pipelineVars, program, mainPc, closerPc, current, jobs,
                   jobsClosed, results, resultsClosed, wgTasks, ctxDone,
                   collected, handled, finished, released, panicked>>

\* case <-time.After(1 * time.Second) (in v2: the sleep); after the last
\* step the loss is computed
TaskStep(t) ==
    /\ PoolAlive
    /\ taskPc[t] = "calc"
    /\ steps[t] > 0
    /\ steps' = [steps EXCEPT ![t] = @ - 1]
    /\ IF steps[t] = 1
         THEN /\ taskPc' = [taskPc EXCEPT ![t] = "send"]
              /\ finished' = finished \cup {t}
         ELSE UNCHANGED <<taskPc, finished>>
    /\ UNCHANGED <<pipelineVars, program, mainPc, closerPc, current, chanVars,
                   wgTasks, ctxDone, collected, handled, released, panicked>>

\* case <-ctx.Done() in the loop: return (in v6: return 0, ctx.Err(), which
\* the goroutine then sends)
TaskCancel(t) ==
    /\ PoolAlive
    /\ program \in ContextPrograms
    /\ taskPc[t] = "calc"
    /\ steps[t] > 0
    /\ ctxDone
    /\ steps' = [steps EXCEPT ![t] = 0]
    /\ taskPc' = [taskPc EXCEPT ![t] = IF program = "v6" THEN "send"
                                                          ELSE AfterWork]
    /\ UNCHANGED <<pipelineVars, program, mainPc, closerPc, current, chanVars,
                   wgTasks, ctxDone, collected, handled, finished, released,
                   panicked>>

\* resultChan <- loss; a send on a closed channel panics
TaskSend(t) ==
    /\ PoolAlive
    /\ taskPc[t] = "send"
    /\ IF resultsClosed
         THEN /\ panicked' = TRUE
              /\ UNCHANGED <<results, taskPc>>
         ELSE /\ results < ResultsCap
              /\ results' = results + 1
              /\ taskPc' = [taskPc EXCEPT ![t] = AfterWork]
              /\ UNCHANGED panicked
    /\ UNCHANGED <<pipelineVars, program, mainPc, closerPc, current, jobs,
                   jobsClosed, resultsClosed, sem, wgTasks, ctxDone, collected,
                   steps, handled, finished, released>>

\* case <-ctx.Done() at the send: return
TaskGiveUp(t) ==
    /\ PoolAlive
    /\ program \in {"v3", "v4"}
    /\ taskPc[t] = "send"
    /\ ctxDone
    /\ taskPc' = [taskPc EXCEPT ![t] = AfterWork]
    /\ UNCHANGED <<pipelineVars, program, mainPc, closerPc, current, chanVars,
                   wgTasks, ctxDone, collected, steps, handled, finished,
                   released, panicked>>

\* defer func() { <-sem }()
TaskRelease(t) ==
    /\ PoolAlive
    /\ taskPc[t] = "release"
    /\ sem > 0
    /\ sem' = sem - 1
    /\ released' = [released EXCEPT ![t] = @ + 1]
    /\ taskPc' = [taskPc EXCEPT ![t] = "wgdone"]
    /\ UNCHANGED <<pipelineVars, program, mainPc, closerPc, current, jobs,
                   jobsClosed, results, resultsClosed, wgTasks, ctxDone,
                   collected, steps, handled, finished, panicked>>

\* defer wg.Done()
TaskDone(t) ==
    /\ PoolAlive
    /\ taskPc[t] = "wgdone"
    /\ wgTasks' = wgTasks - 1
    /\ taskPc' = [taskPc EXCEPT ![t] = "done"]
    /\ UNCHANGED <<pipelineVars, program, mainPc, closerPc, current, chanVars,
                   ctxDone, collected, steps, handled, finished, released,
                   panicked>>

\* go func() { wg.Wait(); ...
CloserWait ==
    /\ PoolAlive
    /\ closerPc = "wait"
    /\ wgTasks = 0
    /\ closerPc' = "close"
    /\ UNCHANGED <<pipelineVars, program, mainPc, taskPc, current, chanVars,
                   wgTasks, ctxDone, collected, steps, handled, finished,
                   released, panicked>>

\* ... close(results) }()
CloserClose ==
    /\ PoolAlive
    /\ closerPc = "close"
    /\ resultsClosed' = TRUE
    /\ closerPc' = "done"
    /\ UNCHANGED <<pipelineVars, program, mainPc, taskPc, current, jobs,
                   jobsClosed, results, sem, wgTasks, ctxDone, collected,
                   steps, handled, finished, released, panicked>>

\* case loss := <-results: collected++ (in v6: the body of for r := range)
MainReceive ==
    /\ PoolAlive
    /\ mainPc = "collect"
    /\ results > 0
    /\ results' = results - 1
    /\ collected' = collected + 1
    /\ mainPc' = IF program \in TimeoutPrograms /\ collected + 1 = MaxTasks
                   THEN "complete" ELSE "collect"
    /\ UNCHANGED <<pipelineVars, program, closerPc, taskPc, current, jobs,
                   jobsClosed, resultsClosed, sem, wgTasks, ctxDone, steps,
                   handled, finished, released, panicked>>

\* the results channel is closed and empty: if !ok, or the end of range
MainClosed ==
    /\ PoolAlive
    /\ program \in PoolPrograms
    /\ mainPc = "collect"
    /\ results = 0
    /\ resultsClosed
    /\ mainPc' = "complete"
    /\ UNCHANGED <<pipelineVars, program, closerPc, taskPc, current, chanVars,
                   wgTasks, ctxDone, collected, steps, handled, finished,
                   released, panicked>>

\* case <-timeout, case <-ctx.Done(): main stops receiving
MainTimeout ==
    /\ PoolAlive
    /\ program # "v6"
    /\ mainPc = "collect"
    /\ ctxDone
    /\ mainPc' = "timedout"
    /\ UNCHANGED <<pipelineVars, program, closerPc, taskPc, current, chanVars,
                   wgTasks, ctxDone, collected, steps, handled, finished,
                   released, panicked>>

\* main returns (os.Exit(0) in v6): the process exits
MainReturn ==
    /\ PoolAlive
    /\ mainPc \in {"complete", "timedout"}
    /\ mainPc' = "exited"
    /\ UNCHANGED <<pipelineVars, program, closerPc, taskPc, current, chanVars,
                   wgTasks, ctxDone, collected, steps, handled, finished,
                   released, panicked>>

InitPool == Collecting(PoolPrograms)

NextPool ==
    \/ Timeout
    \/ \E t \in Tasks : TaskAcquire(t)
    \/ \E t \in Tasks : TaskStep(t)
    \/ \E t \in Tasks : TaskCancel(t)
    \/ \E t \in Tasks : TaskSend(t)
    \/ \E t \in Tasks : TaskGiveUp(t)
    \/ \E t \in Tasks : TaskRelease(t)
    \/ \E t \in Tasks : TaskDone(t)
    \/ CloserWait
    \/ CloserClose
    \/ MainReceive
    \/ MainClosed
    \/ MainTimeout
    \/ MainReturn

SpecPool == InitPool /\ [][NextPool]_vars

(***************************************************************************)
(* C26: in the bounded worker pool at most maxWorkers goroutines execute   *)
(* calcPowerFlow at the same time in every reachable state, every          *)
(* goroutine that took a semaphore token returns it exactly once (also     *)
(* when cancelled), and the results channel is closed only after every     *)
(* worker has finished, so no worker ever sends on a closed channel.       *)
(***************************************************************************)
\* the goroutines that hold a token
TokenHolders == {t \in Tasks : taskPc[t] \in {"calc", "send", "release"}}

\* the goroutines inside calcPowerFlow or sending its result
Calculating == {t \in Tasks : taskPc[t] \in {"calc", "send"}}

C26_Bounded ==
    /\ Cardinality(Calculating) <= MaxWorkers
    /\ sem = Cardinality(TokenHolders)
    /\ sem <= MaxWorkers
    /\ \A t \in Tasks :
          released[t] = IF taskPc[t] \in {"wgdone", "done"} THEN 1 ELSE 0
    /\ wgTasks = Cardinality({t \in Tasks : taskPc[t] # "done"})
    /\ resultsClosed => \A t \in Tasks : taskPc[t] = "done"
    /\ ~panicked

C26_ReleaseStep ==
    \A t \in Tasks :
        released'[t] # released[t] =>
            /\ t \in TokenHolders
            /\ released'[t] = released[t] + 1
            /\ sem' = sem - 1

C26_Pool == [](C26_Bounded) /\ [][C26_ReleaseStep]_vars

\* results has been closed after every goroutine returned its token, one
\* of them cancelled before its calculation ended, another after sending
\* a result that main received
C26_Witness ==
    /\ resultsClosed
    /\ ctxDone
    /\ sem = 0
    /\ \A t \in Tasks : released[t] = 1
    /\ \E t \in Tasks : t \notin finished
    /\ \E t \in Tasks : t \in finished
    /\ collected > 0

(***************************************************************************)
(* The timeout programs v2 and v3. Nothing is assumed about how long main  *)
(* takes to return after the timeout; a goroutine that can run is run.     *)
(***************************************************************************)
InitTimeout == Collecting(TimeoutPrograms)

NextTimeout ==
    \/ Timeout
    \/ \E t \in Tasks : TaskStep(t)
    \/ \E t \in Tasks : TaskCancel(t)
    \/ \E t \in Tasks : TaskSend(t)
    \/ \E t \in Tasks : TaskGiveUp(t)
    \/ MainReceive
    \/ MainTimeout
    \/ MainReturn

FairTimeout ==
    \A t \in Tasks :
        WF_vars(TaskStep(t) \/ TaskCancel(t) \/ TaskSend(t) \/ TaskGiveUp(t))

SpecTimeout == InitTimeout /\ [][NextTimeout]_vars /\ FairTimeout

(***************************************************************************)
(* C27: after main stops receiving results because the timeout fired, no   *)
(* calcPowerFlow goroutine stays blocked forever on sending its result: in *)
(* the timeout version every send completes because the results channel    *)
(* has capacity equal to the number of tasks, and in the context version   *)
(* every goroutine either sends or returns on ctx.Done.                    *)
(***************************************************************************)
Sending == {t \in Tasks : taskPc[t] = "send"}

\* a goroutine at its send can go on: there is room in the channel, and in
\* v3 ctx.Done() is ready once main has stopped receiving
C27_SendReady ==
    /\ results + collected + Cardinality(Sending) <= ResultsCap
    /\ \A t \in Sending : results < ResultsCap
    /\ mainPc = "timedout" => ctxDone
    /\ ~panicked

C27_SendStep ==
    \A t \in Tasks :
        taskPc[t] = "send" /\ taskPc'[t] # "send" =>
            /\ taskPc'[t] = "done"
            /\ \/ results' = results + 1
               \/ program = "v3" /\ ctxDone /\ results' = results

C27_SendsEnd ==
    \A t \in Tasks :
        taskPc[t] = "send" ~> (taskPc[t] = "done" \/ mainPc = "exited")

C27_NoLeak == [](C27_SendReady) /\ [][C27_SendStep]_vars /\ C27_SendsEnd

\* v2: main stopped at the timeout without having received anything, and
\* every goroutine has sent its result into the channel and returned
C27_Witness ==
    /\ program = "v2"
    /\ mainPc = "timedout"
    /\ collected = 0
    /\ results = MaxTasks
    /\ \A t \in Tasks : taskPc[t] = "done"

=============================================================================
